---- MODULE Spec2Model ----
(***************************************************************************)
(* Model of the caching layers (ml/optimization.py: ModelCache,            *)
(* PredictionCache) and of the model registry (routers/ml_predictions.py:  *)
(* train_model, activate_model; ml/model_manager.py: ModelManager).        *)
(*                                                                         *)
(* Python dicts are ordered: a dict is a sequence of <<key, value>> pairs  *)
(* in insertion order, because min() over access_counts.keys() and the     *)
(* loop of clear_expired observe that order.                               *)
(***************************************************************************)
EXTENDS Integers, Sequences, FiniteSets, TLC

(***************************************************************************)
(* Bounds of the model.                                                    *)
(***************************************************************************)
MaxTtl == 2        \* ttl_seconds ranges over 1..MaxTtl (in clock ticks)
MaxCap == 2        \* max_size ranges over 1..MaxCap
MaxTime == 2       \* the clock advances at most MaxTime ticks
MaxCount == 3      \* an access count is never pushed beyond MaxCount
MaxLoads == 3      \* at most MaxLoads reads of persistent storage
MaxCalls == 2      \* a thread makes at most MaxCalls PredictionCache calls
MaxVersions == 3   \* save_model runs until version MaxVersions is saved
MaxRows == 2       \* detect() is given at most MaxRows rows
MaxRaw == 1        \* a raw sub-detector score ranges over 0..MaxRaw
MaxHorizon == 2    \* a forecast horizon ranges over 1..MaxHorizon days

Keys == {"a", "b", "c"}
Paths == {"model.bin", "scaler.bin"}
Requests == {"r1", "r2"}
Threads == {"t1", "t2"}
Values == {"v1", "v2"}
None == "None"
NoKey == "-"

\* time.time() at construction: the wall clock is far past any ttl, so the
\* default 0 of access_times.get(key, 0) always reads as expired.
Epoch == MaxTtl + 1

VARIABLES
    now,                \* time.time()
    pc_cache,           \* PredictionCache.cache
    pc_access_times,    \* PredictionCache.access_times
    pc_access_counts,   \* PredictionCache.access_counts
    pc_max_size,        \* PredictionCache.max_size
    pc_ttl,             \* PredictionCache.ttl
    pc_set_at,          \* history: time of the last completed set(key, ...)
    pc_ret,             \* history: the last call and its outcome
    pc_thr,             \* the threads calling into the PredictionCache
    pc_stale,           \* history: a threaded get() has deleted an expired key
    mc_cache,           \* ModelCache.cache
    mc_access_times,    \* ModelCache.access_times
    mc_ttl,             \* ModelCache.ttl
    mc_loads,           \* number of joblib.load calls made so far
    mc_ret,             \* history: the last call and its outcome
    mc_thr,             \* the threads calling into the ModelCache
    ml_models,          \* the ml_models table (committed rows; row i has id i)
    model_dirs,         \* MODELS_DIR: version directory -> files in it
    latest_dir,         \* MODELS_DIR / 'latest'
    reqs,               \* the requests in flight, each with its session
    observed,           \* what the last reader of is_active saw
    reg_ret,            \* history: the last registry call and its outcome
    wr,                 \* the calls of the with_prediction_cache wrapper
    pr_ret,             \* history: the last predict_room / predict_farm response
    art_latest,         \* MODELS_DIR / 'latest', file by file
    art_trainer,        \* the process running MLTrainer.save_model
    art_predictor,      \* the process running MLPredictor.__init__
    ens,                \* an AnomalyEnsemble: which sub-detectors are trained
    ens_ret,            \* history: the last detect() with what it was given
    fc_ret,             \* history: the last predict_multi_horizon call
    del_ret,            \* history: the last ModelManager.delete_model call
    cmp_metrics,        \* version name -> content of its metrics.json, or NoMetrics
    cmp_ret,            \* history: the last ModelManager.compare_models call
    key_calls,          \* history: the last two cache keys made, oldest first
    sg_global,          \* getter -> the instance in its module global, 0 for None
    sg_made,            \* getter -> the number of instances constructed
    sg_thr,             \* thread -> its position in a getter and its handles
    sg_entries,         \* getter -> the instances an entry was stored in
    predictions,        \* the committed rows of the predictions table
    sv_ret              \* history: the last predict_room call that saves

pcVars == <<pc_cache, pc_access_times, pc_access_counts, pc_max_size, pc_ttl,
            pc_set_at, pc_ret, pc_thr, pc_stale>>
mcVars == <<mc_cache, mc_access_times, mc_ttl, mc_loads, mc_ret, mc_thr>>
regVars == <<ml_models, model_dirs, latest_dir, reqs, observed, reg_ret>>
wrVars == <<wr>>
prVars == <<pr_ret>>
artVars == <<art_latest, art_trainer, art_predictor>>
ensVars == <<ens, ens_ret>>
fcVars == <<fc_ret>>
delVars == <<del_ret>>
cmpVars == <<cmp_metrics, cmp_ret>>
keyVars == <<key_calls>>
sgVars == <<sg_global, sg_made, sg_thr, sg_entries>>
svVars == <<predictions, sv_ret>>
extVars == <<wrVars, prVars, artVars, ensVars, fcVars,
             delVars, cmpVars, keyVars, sgVars, svVars>>
extButWr ==
    <<prVars, artVars, ensVars, fcVars, delVars, cmpVars, keyVars, sgVars, svVars>>
extButPr ==
    <<wrVars, artVars, ensVars, fcVars, delVars, cmpVars, keyVars, sgVars, svVars>>
extButArt ==
    <<wrVars, prVars, ensVars, fcVars, delVars, cmpVars, keyVars, sgVars, svVars>>
extButEns ==
    <<wrVars, prVars, artVars, fcVars, delVars, cmpVars, keyVars, sgVars, svVars>>
extButFc ==
    <<wrVars, prVars, artVars, ensVars, delVars, cmpVars, keyVars, sgVars, svVars>>
extButDel ==
    <<wrVars, prVars, artVars, ensVars, fcVars, cmpVars, keyVars, sgVars, svVars>>
extButCmp ==
    <<wrVars, prVars, artVars, ensVars, fcVars, delVars, keyVars, sgVars, svVars>>
extButKey ==
    <<wrVars, prVars, artVars, ensVars, fcVars, delVars, cmpVars, sgVars, svVars>>
extButSg ==
    <<wrVars, prVars, artVars, ensVars, fcVars, delVars, cmpVars, keyVars, svVars>>
extButSv ==
    <<wrVars, prVars, artVars, ensVars, fcVars, delVars, cmpVars, keyVars, sgVars>>
vars == <<now, pcVars, mcVars, regVars, extVars>>

(***************************************************************************)
(* Python dict operations over ordered dicts.                              *)
(***************************************************************************)
EmptyDict == <<>>

DictKeys(d) == {d[i][1] : i \in 1..Len(d)}

DictHas(d, k) == k \in DictKeys(d)

DictIndex(d, k) == CHOOSE i \in 1..Len(d) : d[i][1] = k

\* d.get(k, default)
DictGet(d, k, default) == IF DictHas(d, k) THEN d[DictIndex(d, k)][2] ELSE default

\* d[k] = v: an existing key keeps its position, a new key goes last
DictSet(d, k, v) ==
    IF DictHas(d, k)
    THEN [i \in 1..Len(d) |-> IF d[i][1] = k THEN <<k, v>> ELSE d[i]]
    ELSE Append(d, <<k, v>>)

\* del d[k], for a key that is present
DictDel(d, k) == SelectSeq(d, LAMBDA e : e[1] # k)

\* the keys in iteration order
DictKeySeq(d) == [i \in 1..Len(d) |-> d[i][1]]

\* A dict that is never iterated (cache) is a function on its key set.
EmptyMap == [k \in {} |-> None]

MapHas(m, k) == k \in DOMAIN m

\* m[k] = v
MapSet(m, k, v) == [x \in DOMAIN m \cup {k} |-> IF x = k THEN v ELSE m[x]]

\* del m[k], for a key that is present
MapDel(m, k) == [x \in DOMAIN m \ {k} |-> m[x]]

\* len(m)
MapLen(m) == Cardinality(DOMAIN m)

(***************************************************************************)
(* PredictionCache, one call at a time.                                    *)
(***************************************************************************)
\* current_time - access_time >= self.ttl
Expired(current_time, access_time, ttl) == current_time - access_time >= ttl

\* a capacity test that is off by one
CacheFullOffByOne(cache, max_size) == MapLen(cache) > max_size

\* len(self.cache) >= self.max_size
CacheFull(cache, max_size) == MapLen(cache) >= max_size

\* min(self.access_counts.keys(), key=lambda k: self.access_counts.get(k, 0)):
\* the first key, in iteration order, whose count is minimal
LruKey(access_counts) ==
    LET least == CHOOSE i \in 1..Len(access_counts) :
                    /\ \A j \in 1..Len(access_counts) :
                          access_counts[i][2] <= access_counts[j][2]
                    /\ \A j \in 1..(i - 1) :
                          access_counts[j][2] > access_counts[i][2]
    IN  access_counts[least][1]

\* The eviction block of set(): the three del statements in order; a del of
\* an absent key raises KeyError and leaves the later ones undone.
PcEvict(cache, access_times, access_counts) ==
    LET lru_key == LruKey(access_counts) IN
    IF ~MapHas(cache, lru_key)
    THEN [cache |-> cache, access_times |-> access_times,
          access_counts |-> access_counts, raised |-> "KeyError", victim |-> lru_key]
    ELSE IF ~DictHas(access_times, lru_key)
    THEN [cache |-> MapDel(cache, lru_key), access_times |-> access_times,
          access_counts |-> access_counts, raised |-> "KeyError", victim |-> lru_key]
    ELSE [cache |-> MapDel(cache, lru_key),
          access_times |-> DictDel(access_times, lru_key),
          access_counts |-> DictDel(access_counts, lru_key),
          raised |-> "none", victim |-> lru_key]

\* PredictionCache.set(key, value) at time current_time
PcSetResult(cache, access_times, access_counts, max_size, current_time, key, value) ==
    LET ev == IF CacheFull(cache, max_size)
              THEN IF Len(access_counts) = 0
                   THEN [cache |-> cache, access_times |-> access_times,
                         access_counts |-> access_counts,
                         raised |-> "ValueError", victim |-> NoKey]
                   ELSE PcEvict(cache, access_times, access_counts)
              ELSE [cache |-> cache, access_times |-> access_times,
                    access_counts |-> access_counts, raised |-> "none", victim |-> NoKey]
    IN  IF ev.raised # "none"
        THEN ev
        ELSE [cache |-> MapSet(ev.cache, key, value),
              access_times |-> DictSet(ev.access_times, key, current_time),
              access_counts |-> DictSet(ev.access_counts, key, 1),
              raised |-> "none", victim |-> ev.victim]

\* PredictionCache.get(key) at time current_time
PcGetResult(cache, access_times, access_counts, ttl, current_time, key) ==
    IF ~MapHas(cache, key)
    THEN [cache |-> cache, access_times |-> access_times,
          access_counts |-> access_counts, result |-> None]
    ELSE IF Expired(current_time, DictGet(access_times, key, 0), ttl)
    THEN [cache |-> MapDel(cache, key), access_times |-> access_times,
          access_counts |-> access_counts, result |-> None]
    ELSE [cache |-> cache,
          access_times |-> DictSet(access_times, key, current_time),
          access_counts |-> DictSet(access_counts, key,
                                    DictGet(access_counts, key, 0) + 1),
          result |-> cache[key]]

\* the first loop of clear_expired(): the expired keys in iteration order
ExpiredKeys(access_times, ttl, current_time) ==
    DictKeySeq(SelectSeq(access_times,
                         LAMBDA e : Expired(current_time, e[2], ttl)))

\* the second loop of clear_expired(): three del statements per expired key;
\* the first KeyError ends the call with the earlier keys already removed
RECURSIVE PcSweep(_, _, _, _)
PcSweep(cache, access_times, access_counts, expired) ==
    IF Len(expired) = 0
    THEN [cache |-> cache, access_times |-> access_times,
          access_counts |-> access_counts, raised |-> "none"]
    ELSE LET key == Head(expired) IN
         IF ~MapHas(cache, key)
         THEN [cache |-> cache, access_times |-> access_times,
               access_counts |-> access_counts, raised |-> "KeyError"]
         ELSE IF ~DictHas(access_times, key)
         THEN [cache |-> MapDel(cache, key), access_times |-> access_times,
               access_counts |-> access_counts, raised |-> "KeyError"]
         ELSE IF ~DictHas(access_counts, key)
         THEN [cache |-> MapDel(cache, key),
               access_times |-> DictDel(access_times, key),
               access_counts |-> access_counts, raised |-> "KeyError"]
         ELSE PcSweep(MapDel(cache, key), DictDel(access_times, key),
                      DictDel(access_counts, key), Tail(expired))

\* the record of a call that has just returned
PcRet(op, key, result, raised, victim, removed) ==
    [op |-> op, key |-> key, result |-> result, raised |-> raised,
     victim |-> victim, removed |-> removed,
     full |-> op = "set" /\ CacheFull(pc_cache, pc_max_size),
     victim_stored |-> MapHas(pc_cache, victim),
     victim_least |-> /\ victim # NoKey
                      /\ \A k \in DOMAIN pc_cache :
                            DictGet(pc_access_counts, victim, 0)
                                <= DictGet(pc_access_counts, k, 0)]

PcIdle ==
    [op |-> "idle", key |-> NoKey, result |-> None, raised |-> "none",
     victim |-> NoKey, removed |-> 0, full |-> FALSE,
     victim_stored |-> FALSE, victim_least |-> FALSE]

\* history: the time of the set() that stored each key now in the cache
PcSetAt(cache, key, at) ==
    [k \in Keys |-> IF ~MapHas(cache, k) THEN 0
                    ELSE IF k = key THEN at ELSE pc_set_at[k]]

\* a thread that is not inside a PredictionCache call; raised and torn
\* describe the call it made last
PcIdleThread ==
    [pc |-> "idle", op |-> "-", key |-> NoKey, value |-> None,
     current_time |-> 0, lru_key |-> NoKey, count |-> 0, expired |-> <<>>,
     raised |-> "none", torn |-> FALSE, calls |-> 0]

\* PredictionCache(max_size, ttl_seconds)
PcInit(max_size, ttl_seconds) ==
    /\ pc_cache = EmptyMap
    /\ pc_access_times = EmptyDict
    /\ pc_access_counts = EmptyDict
    /\ pc_max_size = max_size
    /\ pc_ttl = ttl_seconds
    /\ pc_set_at = [k \in Keys |-> 0]
    /\ pc_ret = PcIdle
    /\ pc_thr = [t \in Threads |-> PcIdleThread]
    /\ pc_stale = FALSE

PcSet(key, value) ==
    LET r == PcSetResult(pc_cache, pc_access_times, pc_access_counts,
                         pc_max_size, now, key, value) IN
    /\ pc_cache' = r.cache
    /\ pc_access_times' = r.access_times
    /\ pc_access_counts' = r.access_counts
    /\ pc_set_at' = IF r.raised = "none"
                    THEN PcSetAt(r.cache, key, now)
                    ELSE PcSetAt(r.cache, NoKey, now)
    /\ pc_ret' = PcRet("set", key, IF r.raised = "none" THEN value ELSE None,
                       r.raised, r.victim, 0)
    /\ UNCHANGED <<now, pc_max_size, pc_ttl, pc_thr, pc_stale, mcVars, regVars, extVars>>

PcGet(key) ==
    LET r == PcGetResult(pc_cache, pc_access_times, pc_access_counts,
                         pc_ttl, now, key) IN
    /\ r.result # None => DictGet(pc_access_counts, key, 0) < MaxCount
    /\ pc_cache' = r.cache
    /\ pc_access_times' = r.access_times
    /\ pc_access_counts' = r.access_counts
    /\ pc_set_at' = PcSetAt(r.cache, NoKey, now)
    /\ pc_ret' = PcRet("get", key, r.result, "none", NoKey, 0)
    /\ UNCHANGED <<now, pc_max_size, pc_ttl, pc_thr, pc_stale, mcVars, regVars, extVars>>

PcClearExpired ==
    LET expired == ExpiredKeys(pc_access_times, pc_ttl, now)
        r == PcSweep(pc_cache, pc_access_times, pc_access_counts, expired) IN
    /\ pc_cache' = r.cache
    /\ pc_access_times' = r.access_times
    /\ pc_access_counts' = r.access_counts
    /\ pc_ret' = PcRet("clear_expired", NoKey, None, r.raised, NoKey,
                       IF r.raised = "none" THEN Len(expired) ELSE 0)
    /\ pc_set_at' = PcSetAt(r.cache, NoKey, now)
    /\ UNCHANGED <<now, pc_max_size, pc_ttl, pc_thr, pc_stale, mcVars, regVars, extVars>>

\* the wall clock advances between calls
Tick ==
    /\ now < Epoch + MaxTime
    /\ now' = now + 1

PcTick ==
    /\ Tick
    /\ pc_ret' = PcIdle
    /\ UNCHANGED <<pc_cache, pc_access_times, pc_access_counts, pc_max_size,
                   pc_ttl, pc_set_at, pc_thr, pc_stale, mcVars, regVars, extVars>>

(***************************************************************************)
(* ModelCache, one call at a time.  A loaded artifact is an object with an *)
(* identity (id: the number of the load that built it) and the time of     *)
(* that load (at).                                                         *)
(***************************************************************************)
NoModel == [id |-> 0, at |-> 0]

\* joblib.load(model_path): a fresh object each time
Loaded(loads, current_time) == [id |-> loads + 1, at |-> current_time]

\* an expiry test that never expires an entry
McFreshAlways(current_time, access_time, ttl) == current_time >= access_time

\* current_time - access_time < self.ttl
McFresh(current_time, access_time, ttl) == current_time - access_time < ttl

\* ModelCache.get_model(model_path) at time current_time; load_ok says
\* whether joblib.load succeeds
McGetModelResult(cache, access_times, ttl, loads, current_time, model_path, load_ok) ==
    LET hit == /\ MapHas(cache, model_path)
               /\ McFresh(current_time, DictGet(access_times, model_path, 0), ttl)
        \* the expired branch: del self.cache[...]; del self.access_times[...]
        cache1 == IF MapHas(cache, model_path)
                  THEN MapDel(cache, model_path) ELSE cache
        times1 == IF MapHas(cache, model_path)
                  THEN DictDel(access_times, model_path) ELSE access_times
        model == Loaded(loads, current_time)
    IN  IF hit
        THEN [cache |-> cache,
              access_times |-> DictSet(access_times, model_path, current_time),
              result |-> cache[model_path], raised |-> "none", reads |-> 0]
        ELSE IF MapHas(cache, model_path) /\ ~DictHas(access_times, model_path)
        THEN [cache |-> cache1, access_times |-> access_times,
              result |-> NoModel, raised |-> "KeyError", reads |-> 0]
        ELSE IF ~load_ok
        THEN [cache |-> cache1, access_times |-> times1,
              result |-> NoModel, raised |-> "Exception", reads |-> 1]
        ELSE [cache |-> MapSet(cache1, model_path, model),
              access_times |-> DictSet(times1, model_path, current_time),
              result |-> model, raised |-> "none", reads |-> 1]

\* the second loop of ModelCache.clear_expired()
RECURSIVE McSweep(_, _, _)
McSweep(cache, access_times, expired) ==
    IF Len(expired) = 0
    THEN [cache |-> cache, access_times |-> access_times, raised |-> "none"]
    ELSE LET model_path == Head(expired) IN
         IF ~MapHas(cache, model_path)
         THEN [cache |-> cache, access_times |-> access_times,
               raised |-> "KeyError"]
         ELSE IF ~DictHas(access_times, model_path)
         THEN [cache |-> MapDel(cache, model_path),
               access_times |-> access_times, raised |-> "KeyError"]
         ELSE McSweep(MapDel(cache, model_path),
                      DictDel(access_times, model_path), Tail(expired))

\* the record of a ModelCache call that has just returned
McRet(op, model_path, r, removed) ==
    [op |-> op, path |-> model_path, result |-> r.result, raised |-> r.raised,
     reads |-> r.reads, removed |-> removed,
     had_entry |-> MapHas(mc_cache, model_path),
     age |-> now - DictGet(mc_access_times, model_path, 0),
     old |-> IF MapHas(mc_cache, model_path)
             THEN mc_cache[model_path] ELSE NoModel]

McIdle ==
    [op |-> "idle", path |-> NoKey, result |-> NoModel, raised |-> "none",
     reads |-> 0, removed |-> 0, had_entry |-> FALSE, age |-> 0,
     old |-> NoModel]

\* a thread that is not inside a ModelCache call; result, raised and torn
\* describe the call it made last
McIdleThread ==
    [pc |-> "idle", path |-> NoKey, current_time |-> 0, model |-> NoModel,
     result |-> NoModel, raised |-> "none", torn |-> FALSE]

\* ModelCache(ttl_seconds)
McInit(ttl_seconds) ==
    /\ mc_cache = EmptyMap
    /\ mc_access_times = EmptyDict
    /\ mc_ttl = ttl_seconds
    /\ mc_loads = 0
    /\ mc_ret = McIdle
    /\ mc_thr = [t \in Threads |-> McIdleThread]

McGetModel(model_path, load_ok) ==
    LET r == McGetModelResult(mc_cache, mc_access_times, mc_ttl, mc_loads,
                              now, model_path, load_ok) IN
    /\ mc_loads + r.reads <= MaxLoads
    /\ mc_cache' = r.cache
    /\ mc_access_times' = r.access_times
    /\ mc_loads' = mc_loads + r.reads
    /\ mc_ret' = McRet("get_model", model_path, r, 0)
    /\ UNCHANGED <<now, mc_ttl, mc_thr, pcVars, regVars, extVars>>

McClearExpired ==
    LET expired == ExpiredKeys(mc_access_times, mc_ttl, now)
        r == McSweep(mc_cache, mc_access_times, expired) IN
    /\ mc_cache' = r.cache
    /\ mc_access_times' = r.access_times
    /\ mc_ret' = McRet("clear_expired", NoKey,
                       [result |-> NoModel, raised |-> r.raised, reads |-> 0],
                       IF r.raised = "none" THEN Len(expired) ELSE 0)
    /\ UNCHANGED <<now, mc_ttl, mc_loads, mc_thr, pcVars, regVars, extVars>>

McTick ==
    /\ Tick
    /\ mc_ret' = McIdle
    /\ UNCHANGED <<mc_cache, mc_access_times, mc_ttl, mc_loads, mc_thr, pcVars, regVars, extVars>>

(***************************************************************************)
(* The model registry: the ml_models table behind train_model and          *)
(* activate_model, and the artifact directories of ModelManager.  A        *)
(* version is named after the second it was saved in, so it is the clock   *)
(* value.  A session works on the rows it loaded; commit writes, for each  *)
(* loaded row, the attributes whose value differs from the loaded one, and *)
(* inserts the added rows, in one transaction.                             *)
(***************************************************************************)
ArtifactFiles == {"model.joblib", "scaler.joblib", "features.joblib", "metrics.json"}

NoDir == [version |-> 0, files |-> {}]

\* MLTrainer.save_model(): the version directory with its four files, and
\* 'latest' replaced by a copy of it
SaveModelDirs(dirs, version) == MapSet(dirs, version, ArtifactFiles)

SaveModelLatest(dirs, version) == [version |-> version, files |-> ArtifactFiles]

\* ModelManager.validate_model(version)
ValidateModel(dirs, version) ==
    /\ MapHas(dirs, version)
    /\ "model.joblib" \in dirs[version]
    /\ "scaler.joblib" \in dirs[version]
    /\ "features.joblib" \in dirs[version]
    /\ "metrics.json" \in dirs[version]

\* ModelManager.delete_model(version), for a version other than 'latest'
DeleteModelDirs(dirs, version) ==
    IF MapHas(dirs, version) THEN MapDel(dirs, version) ELSE dirs

\* select(MLModel).where(MLModel.is_active == True): the ids of the rows
ActiveIds(rows) == {i \in 1..Len(rows) : rows[i].is_active}

\* select(MLModel).where(MLModel.id == model_id).scalar_one_or_none()
RowExists(rows, model_id) == model_id \in 1..Len(rows)

\* a train_model that leaves the other active versions active
TrainCommitKeepsActive(rows, loaded_active, version) ==
    IF \E i \in 1..Len(rows) : rows[i].version = version
    THEN [rows |-> rows, code |-> 500]
    ELSE [rows |-> Append(rows, [version |-> version, is_active |-> TRUE,
                                 status |-> "deployed"]),
          code |-> 200]

\* train_model, from "Deactivate other models" to db.commit(): the rows that
\* were loaded as active are written inactive and the new row is inserted;
\* a second row of the same version breaks the unique constraint and the
\* transaction is rolled back
TrainCommit(rows, loaded_active, version) ==
    IF \E i \in 1..Len(rows) : rows[i].version = version
    THEN [rows |-> rows, code |-> 500]
    ELSE [rows |-> Append([i \in 1..Len(rows) |->
                              IF i \in loaded_active
                              THEN [rows[i] EXCEPT !.is_active = FALSE]
                              ELSE rows[i]],
                          [version |-> version, is_active |-> TRUE,
                           status |-> "deployed"]),
          code |-> 200]

\* activate_model, from "Deactivate all models" to db.commit(): every loaded
\* row ends inactive except the target; a row is written only where that
\* differs from the value it was loaded with
ActivateCommit(rows, loaded, target_loaded, model_id) ==
    [i \in 1..Len(rows) |->
        IF i = model_id
        THEN IF target_loaded.is_active /\ target_loaded.status = "deployed"
             THEN rows[i]
             ELSE [rows[i] EXCEPT !.is_active = TRUE, !.status = "deployed"]
        ELSE IF i \in DOMAIN loaded /\ loaded[i].is_active
             THEN [rows[i] EXCEPT !.is_active = FALSE]
             ELSE rows[i]]

\* the record of a registry call that has just returned
RegRet(op, model_id, code) ==
    [op |-> op, id |-> model_id, code |-> code, before |-> ml_models,
     valid |-> /\ RowExists(ml_models, model_id)
               /\ ValidateModel(model_dirs, ml_models[model_id].version)]

RegIdle == [op |-> "idle", id |-> 0, code |-> 0, before |-> <<>>, valid |-> FALSE]

NoRow == [version |-> 0, is_active |-> FALSE, status |-> "-"]

\* a request slot with no request in it
IdleRequest == [pc |-> "idle", id |-> 0, version |-> 0, active |-> {},
                loaded |-> <<>>, target |-> NoRow]

NothingObserved == [rows |-> 0, active |-> 0]

RegInit ==
    /\ ml_models = <<>>
    /\ model_dirs = [v \in {} |-> {}]
    /\ latest_dir = NoDir
    /\ reqs = [r \in Requests |-> IdleRequest]
    /\ observed = NothingObserved
    /\ reg_ret = RegIdle

\* POST /ml/train, run to completion; ok says whether train_new_model
\* succeeds
TrainModel(ok) ==
    LET version == now
        r == TrainCommit(ml_models, ActiveIds(ml_models), version) IN
    /\ IF ok
       THEN /\ model_dirs' = SaveModelDirs(model_dirs, version)
            /\ latest_dir' = SaveModelLatest(model_dirs, version)
            /\ ml_models' = r.rows
            /\ reg_ret' = RegRet("train", Len(r.rows), r.code)
       ELSE /\ reg_ret' = RegRet("train", 0, 500)
            /\ UNCHANGED <<ml_models, model_dirs, latest_dir>>
    /\ UNCHANGED <<now, reqs, observed, pcVars, mcVars, extVars>>

\* POST /ml/models/{model_id}/activate, run to completion
ActivateModel(model_id) ==
    /\ IF RowExists(ml_models, model_id)
       THEN /\ ml_models' = ActivateCommit(ml_models, ml_models,
                                           ml_models[model_id], model_id)
            /\ reg_ret' = RegRet("activate", model_id, 200)
       ELSE /\ reg_ret' = RegRet("activate", model_id, 404)
            /\ UNCHANGED ml_models
    /\ UNCHANGED <<now, model_dirs, latest_dir, reqs, observed, pcVars, mcVars, extVars>>

\* MLPredictor(model_version): the directory must exist and hold the three
\* joblib files and metrics.json
PredictorLoads(dir) ==
    /\ dir # NoDir
    /\ ArtifactFiles \subseteq dir.files

\* no delete_model call has been made
DelIdle == [op |-> "idle", version |-> 0, alias |-> FALSE, success |-> FALSE,
            was_active |-> FALSE, dir_left |-> FALSE, listed |-> FALSE,
            latest_left |-> FALSE]

DelInit == del_ret = DelIdle

\* GET /ml/models lists the rows of ml_models: is version among them
Listed(rows, version) == \E i \in 1..Len(rows) : rows[i].version = version

\* ModelManager.delete_model(version), for a version other than 'latest':
\* the directory is removed when it exists; the table is not touched
DeleteModel(version) ==
    /\ model_dirs' = DeleteModelDirs(model_dirs, version)
    /\ reg_ret' = RegRet("delete", 0, IF MapHas(model_dirs, version) THEN 200 ELSE 404)
    /\ del_ret' = [op |-> "delete", version |-> version, alias |-> FALSE,
                   success |-> MapHas(model_dirs, version),
                   was_active |-> \E i \in ActiveIds(ml_models) :
                                     ml_models[i].version = version,
                   dir_left |-> MapHas(DeleteModelDirs(model_dirs, version), version),
                   listed |-> Listed(ml_models, version),
                   latest_left |-> PredictorLoads(latest_dir)]
    /\ UNCHANGED <<now, ml_models, latest_dir, reqs, observed, pcVars, mcVars,
                   extButDel>>

\* ModelManager.delete_model('latest'): refused
DeleteLatest ==
    /\ latest_dir # NoDir
    /\ reg_ret' = RegRet("delete", 0, 400)
    /\ del_ret' = [op |-> "delete", version |-> latest_dir.version, alias |-> TRUE,
                   success |-> FALSE,
                   was_active |-> \E i \in ActiveIds(ml_models) :
                                     ml_models[i].version = latest_dir.version,
                   dir_left |-> MapHas(model_dirs, latest_dir.version),
                   listed |-> Listed(ml_models, latest_dir.version),
                   latest_left |-> PredictorLoads(latest_dir)]
    /\ UNCHANGED <<now, ml_models, model_dirs, latest_dir, reqs, observed,
                   pcVars, mcVars, extButDel>>

\* no prediction has been served
PrIdle == [op |-> "idle", code |-> 0, model_version |-> 0, served |-> 0,
           active |-> 0, cause |-> "none"]

PrInit == pr_ret = PrIdle

\* the response of predict_room / predict_farm: the status code, the
\* model_version field, the version whose artifacts the predictor loaded,
\* and the condition that ended the request
PrRet(op, code, cause, active_ids) ==
    [op |-> op, code |-> code,
     model_version |-> IF code = 200
                       THEN ml_models[CHOOSE i \in active_ids : TRUE].version
                       ELSE 0,
     served |-> IF code = 200 THEN latest_dir.version ELSE 0,
     active |-> IF code = 200 THEN CHOOSE i \in active_ids : TRUE ELSE 0,
     cause |-> cause]

\* what predict_multi_horizon meets when it reads the room's data: no CSV
\* file, no row of the room, fewer than 3 rows, or enough rows
HistoryStates == {"no_csv_files", "room_not_in_data", "insufficient_history", "ok"}

\* the condition that ends the request, in the order the handler meets them
PredictCause(op, active_ids, joblib_loads, history) ==
    IF active_ids = {} THEN "no_active_model"
    ELSE IF Cardinality(active_ids) > 1 THEN "multiple_active_rows"
    ELSE IF latest_dir = NoDir THEN "latest_missing"
    ELSE IF ~PredictorLoads(latest_dir) THEN "artifact_file_missing"
    ELSE IF ~joblib_loads THEN "corrupt_artifact"
    ELSE IF op = "predict_room" /\ history # "ok" THEN history
    ELSE "none"

\* the status the handler answers with: its own HTTPException(503), the
\* HTTPException(400) for an 'error' in the predictor's result, and
\* HTTPException(500) from `except Exception`
PredictCode(cause) ==
    IF cause = "none" THEN 200
    ELSE IF cause = "no_active_model" THEN 503
    ELSE IF cause \in HistoryStates THEN 400
    ELSE 500

\* POST /ml/predict/room/{room_id} (save_predictions off) and
\* POST /ml/predict/farm/{farm_id}, for a room or farm that exists:
\* the active row is selected, the predictor is built from 'latest'
Predict(op, joblib_loads, history) ==
    LET active_ids == ActiveIds(ml_models)
        cause == PredictCause(op, active_ids, joblib_loads, history) IN
    /\ pr_ret' = PrRet(op, PredictCode(cause), cause, active_ids)
    /\ UNCHANGED <<now, regVars, pcVars, mcVars, extButPr>>

RegTick ==
    /\ Tick
    /\ reg_ret' = RegIdle
    /\ UNCHANGED <<ml_models, model_dirs, latest_dir, reqs, observed, pcVars, mcVars, extVars>>

(***************************************************************************)
(* The same handlers as concurrent requests.  A handler gives up control   *)
(* at each await: after train_new_model, between a SELECT and the commit.  *)
(* A SELECT reads the committed rows; the commit is one transaction.       *)
(***************************************************************************)
\* train_model up to the first await: train_new_model() saves the artifacts
ReqTrainStart(r, ok) ==
    /\ reqs[r].pc = "idle"
    /\ IF ok
       THEN /\ model_dirs' = SaveModelDirs(model_dirs, now)
            /\ latest_dir' = SaveModelLatest(model_dirs, now)
            /\ reqs' = [reqs EXCEPT ![r] = [IdleRequest EXCEPT
                            !.pc = "train_select", !.version = now]]
            /\ UNCHANGED reg_ret
       ELSE /\ reg_ret' = RegRet("train", 0, 500)
            /\ UNCHANGED <<model_dirs, latest_dir, reqs>>
    /\ UNCHANGED <<now, ml_models, observed, pcVars, mcVars, extVars>>

\* await db.execute(select(MLModel).where(MLModel.is_active == True))
ReqTrainSelect(r) ==
    /\ reqs[r].pc = "train_select"
    /\ reqs' = [reqs EXCEPT ![r].pc = "train_commit",
                            ![r].active = ActiveIds(ml_models)]
    /\ UNCHANGED <<now, ml_models, model_dirs, latest_dir, observed, reg_ret,
                   pcVars, mcVars, extVars>>

\* the loop over active_models, db.add(new_model), await db.commit()
ReqTrainCommit(r) ==
    LET c == TrainCommit(ml_models, reqs[r].active, reqs[r].version) IN
    /\ reqs[r].pc = "train_commit"
    /\ ml_models' = c.rows
    /\ reg_ret' = RegRet("train", Len(c.rows), c.code)
    /\ reqs' = [reqs EXCEPT ![r] = IdleRequest]
    /\ UNCHANGED <<now, model_dirs, latest_dir, observed, pcVars, mcVars, extVars>>

\* activate_model up to its second await: the target row is loaded
ReqActivateStart(r, model_id) ==
    /\ reqs[r].pc = "idle"
    /\ IF RowExists(ml_models, model_id)
       THEN /\ reqs' = [reqs EXCEPT ![r] = [IdleRequest EXCEPT
                            !.pc = "activate_select", !.id = model_id,
                            !.target = ml_models[model_id]]]
            /\ UNCHANGED reg_ret
       ELSE /\ reg_ret' = RegRet("activate", model_id, 404)
            /\ UNCHANGED reqs
    /\ UNCHANGED <<now, ml_models, model_dirs, latest_dir, observed, pcVars, mcVars, extVars>>

\* await db.execute(select(MLModel)): every row is loaded (the target row,
\* already in the session, keeps the attributes it was loaded with)
ReqActivateSelect(r) ==
    /\ reqs[r].pc = "activate_select"
    /\ reqs' = [reqs EXCEPT ![r].pc = "activate_commit", ![r].loaded = ml_models]
    /\ UNCHANGED <<now, ml_models, model_dirs, latest_dir, observed, reg_ret,
                   pcVars, mcVars, extVars>>

\* the loop over all_models, the two assignments, await db.commit()
ReqActivateCommit(r) ==
    /\ reqs[r].pc = "activate_commit"
    /\ ml_models' = ActivateCommit(ml_models, reqs[r].loaded, reqs[r].target,
                                   reqs[r].id)
    /\ reg_ret' = RegRet("activate", reqs[r].id, 200)
    /\ reqs' = [reqs EXCEPT ![r] = IdleRequest]
    /\ UNCHANGED <<now, model_dirs, latest_dir, observed, pcVars, mcVars, extVars>>

\* predict_room: select(MLModel).where(MLModel.is_active == True)
ReadActive ==
    /\ observed' = [rows |-> Len(ml_models),
                    active |-> Cardinality(ActiveIds(ml_models))]
    /\ UNCHANGED <<now, ml_models, model_dirs, latest_dir, reqs, reg_ret,
                   pcVars, mcVars, extVars>>

(***************************************************************************)
(* ModelCache.get_model called from several threads.  No lock is taken in  *)
(* the source, so a thread can be preempted between any two statements:    *)
(* each step below is one statement of get_model.                          *)
(***************************************************************************)
McStep(t, pc) == mc_thr[t].pc = pc

McGoto(t, pc) == mc_thr' = [mc_thr EXCEPT ![t].pc = pc]

McRaise(t, exception) ==
    mc_thr' = [mc_thr EXCEPT ![t].pc = "idle", ![t].raised = exception]

McReturn(t, model) ==
    mc_thr' = [mc_thr EXCEPT ![t].pc = "idle", ![t].result = model]

\* current_time = time.time()
ThrCall(t, model_path) ==
    /\ McStep(t, "idle")
    /\ mc_thr' = [mc_thr EXCEPT ![t] = [McIdleThread EXCEPT
                     !.pc = "check", !.path = model_path, !.current_time = now]]
    /\ UNCHANGED <<now, mc_cache, mc_access_times, mc_ttl, mc_loads, mc_ret,
                   pcVars, regVars, extVars>>

\* if model_path in self.cache: the thread sees the entry torn when the
\* path is in one of the two maps and not in the other
ThrCheck(t) ==
    LET model_path == mc_thr[t].path IN
    /\ McStep(t, "check")
    /\ mc_thr' = [mc_thr EXCEPT
          ![t].pc = IF MapHas(mc_cache, model_path) THEN "time" ELSE "load",
          ![t].torn = (MapHas(mc_cache, model_path)
                          # DictHas(mc_access_times, model_path))]
    /\ UNCHANGED <<now, mc_cache, mc_access_times, mc_ttl, mc_loads, mc_ret,
                   pcVars, regVars, extVars>>

\* access_time = self.access_times.get(model_path, 0); the expiry test
ThrTime(t) ==
    /\ McStep(t, "time")
    /\ IF McFresh(mc_thr[t].current_time,
                  DictGet(mc_access_times, mc_thr[t].path, 0), mc_ttl)
       THEN McGoto(t, "touch")
       ELSE McGoto(t, "del_cache")
    /\ UNCHANGED <<now, mc_cache, mc_access_times, mc_ttl, mc_loads, mc_ret,
                   pcVars, regVars, extVars>>

\* self.access_times[model_path] = current_time
ThrTouch(t) ==
    /\ McStep(t, "touch")
    /\ mc_access_times' = DictSet(mc_access_times, mc_thr[t].path,
                                  mc_thr[t].current_time)
    /\ McGoto(t, "return")
    /\ UNCHANGED <<now, mc_cache, mc_ttl, mc_loads, mc_ret, pcVars, regVars, extVars>>

\* return self.cache[model_path]
ThrReturn(t) ==
    /\ McStep(t, "return")
    /\ IF MapHas(mc_cache, mc_thr[t].path)
       THEN McReturn(t, mc_cache[mc_thr[t].path])
       ELSE McRaise(t, "KeyError")
    /\ UNCHANGED <<now, mc_cache, mc_access_times, mc_ttl, mc_loads, mc_ret,
                   pcVars, regVars, extVars>>

\* del self.cache[model_path]
ThrDelCache(t) ==
    /\ McStep(t, "del_cache")
    /\ IF MapHas(mc_cache, mc_thr[t].path)
       THEN /\ mc_cache' = MapDel(mc_cache, mc_thr[t].path)
            /\ McGoto(t, "del_time")
       ELSE /\ McRaise(t, "KeyError")
            /\ UNCHANGED mc_cache
    /\ UNCHANGED <<now, mc_access_times, mc_ttl, mc_loads, mc_ret, pcVars, regVars, extVars>>

\* del self.access_times[model_path]
ThrDelTime(t) ==
    /\ McStep(t, "del_time")
    /\ IF DictHas(mc_access_times, mc_thr[t].path)
       THEN /\ mc_access_times' = DictDel(mc_access_times, mc_thr[t].path)
            /\ McGoto(t, "load")
       ELSE /\ McRaise(t, "KeyError")
            /\ UNCHANGED mc_access_times
    /\ UNCHANGED <<now, mc_cache, mc_ttl, mc_loads, mc_ret, pcVars, regVars, extVars>>

\* model = joblib.load(model_path)
ThrLoad(t, load_ok) ==
    /\ McStep(t, "load")
    /\ mc_loads < MaxLoads
    /\ mc_loads' = mc_loads + 1
    /\ IF load_ok
       THEN mc_thr' = [mc_thr EXCEPT ![t].pc = "store",
                                     ![t].model = Loaded(mc_loads, now)]
       ELSE McRaise(t, "Exception")
    /\ UNCHANGED <<now, mc_cache, mc_access_times, mc_ttl, mc_ret, pcVars, regVars, extVars>>

\* self.cache[model_path] = model
ThrStore(t) ==
    /\ McStep(t, "store")
    /\ mc_cache' = MapSet(mc_cache, mc_thr[t].path, mc_thr[t].model)
    /\ McGoto(t, "stamp")
    /\ UNCHANGED <<now, mc_access_times, mc_ttl, mc_loads, mc_ret, pcVars, regVars, extVars>>

\* self.access_times[model_path] = current_time; return model
ThrStamp(t) ==
    /\ McStep(t, "stamp")
    /\ mc_access_times' = DictSet(mc_access_times, mc_thr[t].path,
                                  mc_thr[t].current_time)
    /\ McReturn(t, mc_thr[t].model)
    /\ UNCHANGED <<now, mc_cache, mc_ttl, mc_loads, mc_ret, pcVars, regVars, extVars>>

ThrTick ==
    /\ Tick
    /\ UNCHANGED <<mcVars, pcVars, regVars, extVars>>

(***************************************************************************)
(* PredictionCache called from several threads.  No lock is taken in the   *)
(* source: each step below is one statement of get, set or clear_expired   *)
(* (min() and the scanning loop of clear_expired are taken as one step).   *)
(***************************************************************************)
SharedKeys == {"a", "b"}
SharedValue == "v1"

PtAt(t, pc) == pc_thr[t].pc = pc

PtGoto(t, pc) == pc_thr' = [pc_thr EXCEPT ![t].pc = pc]

PtRaise(t, exception) ==
    pc_thr' = [pc_thr EXCEPT ![t].pc = "idle", ![t].raised = exception]

PtFrame == <<now, pc_max_size, pc_ttl, pc_set_at, pc_ret, mcVars, regVars, extVars>>

\* a thread enters get(key), set(key, value) or clear_expired()
PtCall(t, op, key) ==
    /\ PtAt(t, "idle")
    /\ pc_thr[t].calls < MaxCalls
    /\ pc_thr' = [pc_thr EXCEPT ![t] = [PcIdleThread EXCEPT
                     !.pc = op, !.op = op, !.key = key,
                     !.calls = pc_thr[t].calls + 1,
                     !.value = IF op = "set" THEN SharedValue ELSE None]]
    /\ UNCHANGED <<pc_cache, pc_access_times, pc_access_counts, pc_stale, PtFrame>>

\* get: if key not in self.cache: return None
PtGetCheck(t) ==
    /\ PtAt(t, "get")
    /\ PtGoto(t, IF MapHas(pc_cache, pc_thr[t].key) THEN "get_time" ELSE "idle")
    /\ UNCHANGED <<pc_cache, pc_access_times, pc_access_counts, pc_stale, PtFrame>>

\* get: current_time, access_time and the expiry test; the thread has seen
\* the key in self.cache, so a missing timestamp is a half-inserted or
\* half-evicted entry
PtGetTime(t) ==
    LET expired == Expired(now, DictGet(pc_access_times, pc_thr[t].key, 0), pc_ttl) IN
    /\ PtAt(t, "get_time")
    /\ ~expired => DictGet(pc_access_counts, pc_thr[t].key, 0) < MaxCount
    /\ pc_thr' = [pc_thr EXCEPT ![t].current_time = now,
                     ![t].torn = ~DictHas(pc_access_times, pc_thr[t].key),
                     ![t].pc = IF expired THEN "get_del" ELSE "get_touch"]
    /\ UNCHANGED <<pc_cache, pc_access_times, pc_access_counts, pc_stale, PtFrame>>

\* get: del self.cache[key]; return None
PtGetDel(t) ==
    /\ PtAt(t, "get_del")
    /\ IF MapHas(pc_cache, pc_thr[t].key)
       THEN /\ pc_cache' = MapDel(pc_cache, pc_thr[t].key)
            /\ pc_stale' = TRUE
            /\ PtGoto(t, "idle")
       ELSE /\ PtRaise(t, "KeyError")
            /\ UNCHANGED <<pc_cache, pc_stale>>
    /\ UNCHANGED <<pc_access_times, pc_access_counts, PtFrame>>

\* get: self.access_times[key] = current_time
PtGetTouch(t) ==
    /\ PtAt(t, "get_touch")
    /\ pc_access_times' = DictSet(pc_access_times, pc_thr[t].key,
                                  pc_thr[t].current_time)
    /\ PtGoto(t, "get_count")
    /\ UNCHANGED <<pc_cache, pc_access_counts, pc_stale, PtFrame>>

\* get: the read of self.access_counts.get(key, 0)
PtGetCount(t) ==
    /\ PtAt(t, "get_count")
    /\ pc_thr' = [pc_thr EXCEPT ![t].pc = "get_add",
                     ![t].torn = pc_thr[t].torn
                                 \/ ~DictHas(pc_access_counts, pc_thr[t].key),
                     ![t].count = DictGet(pc_access_counts, pc_thr[t].key, 0)]
    /\ UNCHANGED <<pc_cache, pc_access_times, pc_access_counts, pc_stale, PtFrame>>

\* get: self.access_counts[key] = ... + 1
PtGetAdd(t) ==
    /\ PtAt(t, "get_add")
    /\ pc_access_counts' = DictSet(pc_access_counts, pc_thr[t].key,
                                   pc_thr[t].count + 1)
    /\ PtGoto(t, "get_return")
    /\ UNCHANGED <<pc_cache, pc_access_times, pc_stale, PtFrame>>

\* get: return self.cache[key]
PtGetReturn(t) ==
    /\ PtAt(t, "get_return")
    /\ IF MapHas(pc_cache, pc_thr[t].key)
       THEN PtGoto(t, "idle")
       ELSE PtRaise(t, "KeyError")
    /\ UNCHANGED <<pc_cache, pc_access_times, pc_access_counts, pc_stale, PtFrame>>

\* set: if len(self.cache) >= self.max_size
PtSetCheck(t) ==
    /\ PtAt(t, "set")
    /\ PtGoto(t, IF CacheFull(pc_cache, pc_max_size) THEN "set_min" ELSE "set_store")
    /\ UNCHANGED <<pc_cache, pc_access_times, pc_access_counts, pc_stale, PtFrame>>

\* set: lru_key = min(...)
PtSetMin(t) ==
    /\ PtAt(t, "set_min")
    /\ IF Len(pc_access_counts) = 0
       THEN PtRaise(t, "ValueError")
       ELSE pc_thr' = [pc_thr EXCEPT ![t].pc = "set_del_cache",
                          ![t].lru_key = LruKey(pc_access_counts)]
    /\ UNCHANGED <<pc_cache, pc_access_times, pc_access_counts, pc_stale, PtFrame>>

\* set: del self.cache[lru_key]
PtSetDelCache(t) ==
    /\ PtAt(t, "set_del_cache")
    /\ IF MapHas(pc_cache, pc_thr[t].lru_key)
       THEN /\ pc_cache' = MapDel(pc_cache, pc_thr[t].lru_key)
            /\ PtGoto(t, "set_del_times")
       ELSE /\ PtRaise(t, "KeyError")
            /\ UNCHANGED pc_cache
    /\ UNCHANGED <<pc_access_times, pc_access_counts, pc_stale, PtFrame>>

\* set: del self.access_times[lru_key]
PtSetDelTimes(t) ==
    /\ PtAt(t, "set_del_times")
    /\ IF DictHas(pc_access_times, pc_thr[t].lru_key)
       THEN /\ pc_access_times' = DictDel(pc_access_times, pc_thr[t].lru_key)
            /\ PtGoto(t, "set_del_counts")
       ELSE /\ PtRaise(t, "KeyError")
            /\ UNCHANGED pc_access_times
    /\ UNCHANGED <<pc_cache, pc_access_counts, pc_stale, PtFrame>>

\* set: del self.access_counts[lru_key]
PtSetDelCounts(t) ==
    /\ PtAt(t, "set_del_counts")
    /\ IF DictHas(pc_access_counts, pc_thr[t].lru_key)
       THEN /\ pc_access_counts' = DictDel(pc_access_counts, pc_thr[t].lru_key)
            /\ PtGoto(t, "set_store")
       ELSE /\ PtRaise(t, "KeyError")
            /\ UNCHANGED pc_access_counts
    /\ UNCHANGED <<pc_cache, pc_access_times, pc_stale, PtFrame>>

\* set: current_time = time.time(); self.cache[key] = value
PtSetStore(t) ==
    /\ PtAt(t, "set_store")
    /\ pc_cache' = MapSet(pc_cache, pc_thr[t].key, pc_thr[t].value)
    /\ pc_thr' = [pc_thr EXCEPT ![t].pc = "set_stamp", ![t].current_time = now]
    /\ UNCHANGED <<pc_access_times, pc_access_counts, pc_stale, PtFrame>>

\* set: self.access_times[key] = current_time
PtSetStamp(t) ==
    /\ PtAt(t, "set_stamp")
    /\ pc_access_times' = DictSet(pc_access_times, pc_thr[t].key,
                                  pc_thr[t].current_time)
    /\ PtGoto(t, "set_count")
    /\ UNCHANGED <<pc_cache, pc_access_counts, pc_stale, PtFrame>>

\* set: self.access_counts[key] = 1
PtSetCount(t) ==
    /\ PtAt(t, "set_count")
    /\ pc_access_counts' = DictSet(pc_access_counts, pc_thr[t].key, 1)
    /\ PtGoto(t, "idle")
    /\ UNCHANGED <<pc_cache, pc_access_times, pc_stale, PtFrame>>

\* clear_expired: the loop that collects the expired keys
PtClearScan(t) ==
    LET expired == ExpiredKeys(pc_access_times, pc_ttl, now) IN
    /\ PtAt(t, "clear_expired")
    /\ pc_thr' = [pc_thr EXCEPT ![t].current_time = now, ![t].expired = expired,
                     ![t].pc = IF Len(expired) = 0 THEN "idle" ELSE "clear_del_cache"]
    /\ UNCHANGED <<pc_cache, pc_access_times, pc_access_counts, pc_stale, PtFrame>>

\* clear_expired: del self.cache[key]
PtClearDelCache(t) ==
    LET key == Head(pc_thr[t].expired) IN
    /\ PtAt(t, "clear_del_cache")
    /\ IF MapHas(pc_cache, key)
       THEN /\ pc_cache' = MapDel(pc_cache, key)
            /\ PtGoto(t, "clear_del_times")
       ELSE /\ PtRaise(t, "KeyError")
            /\ UNCHANGED pc_cache
    /\ UNCHANGED <<pc_access_times, pc_access_counts, pc_stale, PtFrame>>

\* clear_expired: del self.access_times[key]
PtClearDelTimes(t) ==
    LET key == Head(pc_thr[t].expired) IN
    /\ PtAt(t, "clear_del_times")
    /\ IF DictHas(pc_access_times, key)
       THEN /\ pc_access_times' = DictDel(pc_access_times, key)
            /\ PtGoto(t, "clear_del_counts")
       ELSE /\ PtRaise(t, "KeyError")
            /\ UNCHANGED pc_access_times
    /\ UNCHANGED <<pc_cache, pc_access_counts, pc_stale, PtFrame>>

\* clear_expired: del self.access_counts[key], and on to the next key
PtClearDelCounts(t) ==
    LET key == Head(pc_thr[t].expired)
        rest == Tail(pc_thr[t].expired) IN
    /\ PtAt(t, "clear_del_counts")
    /\ IF DictHas(pc_access_counts, key)
       THEN /\ pc_access_counts' = DictDel(pc_access_counts, key)
            /\ pc_thr' = [pc_thr EXCEPT ![t].expired = rest,
                             ![t].pc = IF Len(rest) = 0 THEN "idle"
                                       ELSE "clear_del_cache"]
       ELSE /\ PtRaise(t, "KeyError")
            /\ UNCHANGED pc_access_counts
    /\ UNCHANGED <<pc_cache, pc_access_times, pc_stale, PtFrame>>

PtTick ==
    /\ Tick
    /\ UNCHANGED <<pcVars, mcVars, regVars, extVars>>

(***************************************************************************)
(* MLTrainer.save_model replacing MODELS_DIR / 'latest' while another      *)
(* process (a server worker, or ml/train.py run as a script beside the     *)
(* server) builds MLPredictor('latest').  The file system is shared and    *)
(* nothing is locked: each file operation is a step.                       *)
(***************************************************************************)

\* the order of the loads in MLPredictor.__init__
LoadOrder == <<"model.joblib", "scaler.joblib", "features.joblib", "metrics.json">>

NoFile == [version |-> 0, whole |-> FALSE]

WholeFile(version) == [version |-> version, whole |-> TRUE]

\* a file whose copy has been opened for writing and is not finished
PartFile(version) == [version |-> version, whole |-> FALSE]

\* 'latest' as the first save_model left it
ArtSaved(version) ==
    [exists |-> TRUE, files |-> [f \in ArtifactFiles |-> WholeFile(version)]]

ArtTrainerIdle(version) == [pc |-> "idle", version |-> version, copying |-> NoKey]

ArtPredictorIdle ==
    [pc |-> "idle", next |-> 1, loaded |-> [f \in ArtifactFiles |-> 0],
     raised |-> "none"]

ArtInit ==
    /\ art_latest = ArtSaved(1)
    /\ art_trainer = ArtTrainerIdle(1)
    /\ art_predictor = ArtPredictorIdle

ArtFrame == <<now, pcVars, mcVars, regVars, extButArt>>

\* save_model: the version directory is created and the four files dumped
SaveVersionDir ==
    /\ art_trainer.pc = "idle"
    /\ art_trainer.version < MaxVersions
    /\ art_trainer' = [art_trainer EXCEPT !.pc = "rmtree",
                                          !.version = art_trainer.version + 1]
    /\ UNCHANGED <<art_latest, art_predictor, ArtFrame>>

\* save_model: shutil.rmtree(latest_dir) unlinks one file
RmtreeUnlink(f) ==
    /\ art_trainer.pc = "rmtree"
    /\ art_latest.exists
    /\ art_latest.files[f] # NoFile
    /\ art_latest' = [art_latest EXCEPT !.files[f] = NoFile]
    /\ UNCHANGED <<art_trainer, art_predictor, ArtFrame>>

\* save_model: shutil.rmtree(latest_dir) removes the emptied directory
RmtreeRmdir ==
    /\ art_trainer.pc = "rmtree"
    /\ art_latest.exists
    /\ \A f \in ArtifactFiles : art_latest.files[f] = NoFile
    /\ art_latest' = [art_latest EXCEPT !.exists = FALSE]
    /\ art_trainer' = [art_trainer EXCEPT !.pc = "copytree"]
    /\ UNCHANGED <<art_predictor, ArtFrame>>

\* save_model: shutil.copytree(version_dir, latest_dir) creates the directory
CopytreeMkdir ==
    /\ art_trainer.pc = "copytree"
    /\ ~art_latest.exists
    /\ art_latest' = [art_latest EXCEPT !.exists = TRUE]
    /\ UNCHANGED <<art_trainer, art_predictor, ArtFrame>>

\* save_model: copytree opens the copy of one more file
CopytreeOpen(f) ==
    /\ art_trainer.pc = "copytree"
    /\ art_latest.exists
    /\ art_trainer.copying = NoKey
    /\ art_latest.files[f] = NoFile
    /\ art_latest' = [art_latest EXCEPT !.files[f] = PartFile(art_trainer.version)]
    /\ art_trainer' = [art_trainer EXCEPT !.copying = f]
    /\ UNCHANGED <<art_predictor, ArtFrame>>

\* save_model: copytree finishes the copy it had open; after the last file
\* save_model returns
CopytreeClose ==
    LET f == art_trainer.copying
        files == [art_latest.files EXCEPT ![f] = WholeFile(art_trainer.version)] IN
    /\ art_trainer.pc = "copytree"
    /\ f # NoKey
    /\ art_latest' = [art_latest EXCEPT !.files = files]
    /\ art_trainer' = [art_trainer EXCEPT !.copying = NoKey,
                          !.pc = IF \A g \in ArtifactFiles : files[g].whole
                                 THEN "idle" ELSE "copytree"]
    /\ UNCHANGED <<art_predictor, ArtFrame>>

\* MLPredictor.__init__: if not self.model_dir.exists(): raise
PredictorInit ==
    /\ art_predictor.pc = "idle"
    /\ art_predictor' =
          IF art_latest.exists
          THEN [ArtPredictorIdle EXCEPT !.pc = "load"]
          ELSE [ArtPredictorIdle EXCEPT !.pc = "done", !.raised = "FileNotFoundError"]
    /\ UNCHANGED <<art_latest, art_trainer, ArtFrame>>

\* MLPredictor.__init__: the next joblib.load / json.load
PredictorLoad ==
    LET f == LoadOrder[art_predictor.next]
        file == art_latest.files[f] IN
    /\ art_predictor.pc = "load"
    /\ art_predictor' =
          IF ~art_latest.exists \/ file = NoFile
          THEN [art_predictor EXCEPT !.pc = "done", !.raised = "FileNotFoundError"]
          ELSE IF ~file.whole
          THEN [art_predictor EXCEPT !.pc = "done", !.raised = "LoadError"]
          ELSE [art_predictor EXCEPT
                   !.loaded[f] = file.version,
                   !.next = IF art_predictor.next = Len(LoadOrder)
                            THEN 1 ELSE art_predictor.next + 1,
                   !.pc = IF art_predictor.next = Len(LoadOrder)
                          THEN "done" ELSE "load"]
    /\ UNCHANGED <<art_latest, art_trainer, ArtFrame>>

\* the predictor is dropped at the end of the request
PredictorDrop ==
    /\ art_predictor.pc = "done"
    /\ art_predictor' = ArtPredictorIdle
    /\ UNCHANGED <<art_latest, art_trainer, ArtFrame>>

(***************************************************************************)
(* ml/anomaly_detector_advanced.py: AnomalyEnsemble.  Weights are counted  *)
(* in tenths; a score is a fraction [num, den] with den > 0.  What sklearn *)
(* computes for a row (the raw isolation and LOF scores, whether a z-score *)
(* passes the threshold) is an input.                                      *)
(***************************************************************************)
IsoMinSamples == 10
NNeighbors == 20
WindowSize == 7
MinValues == 5
WeightUnit == 10

Detectors == {"iso_forest", "lof", "statistical", "timeseries"}

\* the weights detect() uses when it is given none
DefaultWeights ==
    [d \in Detectors |-> IF d \in {"iso_forest", "lof"} THEN 3 ELSE 2]

\* the weights mappings a caller passes: the default, any mapping of the
\* four names to -0.5 or 0.5, all zeros, and a mapping that names one
\* detector only
WeightMaps ==
    {DefaultWeights} \cup [Detectors -> {-5, 5}] \cup [Detectors -> {0}]
        \cup {[d \in {"iso_forest"} |-> WeightUnit]}

\* len(data) of the matrices given to fit()
SampleCounts ==
    {3, MinValues, IsoMinSamples - 1, IsoMinSamples, NNeighbors, NNeighbors + 1}

\* weights.get(name, 0)
WeightsGet(weights, name) == IF name \in DOMAIN weights THEN weights[name] ELSE 0

\* sum(weights.values())
RECURSIVE SumWeights(_, _)
SumWeights(weights, names) ==
    IF names = {} THEN 0
    ELSE LET d == CHOOSE x \in names : TRUE IN
         weights[d] + SumWeights(weights, names \ {d})

SeqMin(xs) == CHOOSE m \in {xs[i] : i \in DOMAIN xs} : \A i \in DOMAIN xs : m <= xs[i]

SeqMax(xs) == CHOOSE m \in {xs[i] : i \in DOMAIN xs} : \A i \in DOMAIN xs : m >= xs[i]

Zero == [num |-> 0, den |-> 1]

\* anomaly_score() giving 1 to every row of a batch of equal raw scores
AnomalyScoreFlatIsOne(trained, raw_scores) ==
    IF ~trained
    THEN [i \in DOMAIN raw_scores |-> Zero]
    ELSE IF SeqMax(raw_scores) = SeqMin(raw_scores)
    THEN [i \in DOMAIN raw_scores |-> [num |-> 1, den |-> 1]]
    ELSE [i \in DOMAIN raw_scores |->
             [num |-> raw_scores[i] - SeqMin(raw_scores),
              den |-> SeqMax(raw_scores) - SeqMin(raw_scores)]]

\* anomaly_score(): zeros when untrained or when all raw scores are equal,
\* else (raw - min) / (max - min)
AnomalyScore(trained, raw_scores) ==
    IF ~trained \/ SeqMax(raw_scores) = SeqMin(raw_scores)
    THEN [i \in DOMAIN raw_scores |-> Zero]
    ELSE [i \in DOMAIN raw_scores |->
             [num |-> raw_scores[i] - SeqMin(raw_scores),
              den |-> SeqMax(raw_scores) - SeqMin(raw_scores)]]

\* detect_by_zscore() as 1.0 / 0.0 per row: nothing is flagged when untrained
StatScores(trained, flagged) ==
    [i \in DOMAIN flagged |-> IF trained /\ flagged[i] THEN 1 ELSE 0]

\* AnomalyEnsemble.detect(data, weights): the score of each row
Detect(e, weights, iso_raw, lof_raw, flagged) ==
    LET iso == IF WeightsGet(weights, "iso_forest") > 0
               THEN AnomalyScore(e.iso_trained, iso_raw)
               ELSE [i \in DOMAIN iso_raw |-> Zero]
        lof == IF WeightsGet(weights, "lof") > 0
               THEN AnomalyScore(e.lof_trained, lof_raw)
               ELSE [i \in DOMAIN iso_raw |-> Zero]
        stat == IF WeightsGet(weights, "statistical") > 0
                THEN StatScores(e.stat_trained, flagged)
                ELSE [i \in DOMAIN iso_raw |-> 0]
        total_weight == SumWeights(weights, DOMAIN weights)
        divisor == IF total_weight > 0 THEN total_weight ELSE WeightUnit
    IN  [iso |-> iso, lof |-> lof, stat |-> stat, divisor |-> divisor,
         scores |-> [i \in DOMAIN iso_raw |->
            [num |-> WeightsGet(weights, "iso_forest") * iso[i].num * lof[i].den
                     + WeightsGet(weights, "lof") * lof[i].num * iso[i].den
                     + WeightsGet(weights, "statistical") * stat[i]
                           * iso[i].den * lof[i].den,
             den |-> divisor * iso[i].den * lof[i].den]]]

\* AnomalyEnsemble(): four untrained detectors; fit_len is the len(data)
\* of the last fit(), identical whether its rows were all the same row
EnsNew ==
    [iso_trained |-> FALSE, lof_trained |-> FALSE, stat_trained |-> FALSE,
     ts_fitted |-> FALSE, fit_len |-> 0, identical |-> FALSE]

EnsIdle ==
    [weights |-> DefaultWeights, e |-> EnsNew, iso |-> <<>>, lof |-> <<>>,
     stat |-> <<>>, divisor |-> 0, scores |-> <<>>, iso_raw |-> <<>>,
     lof_raw |-> <<>>, training_rows |-> FALSE]

EnsInit ==
    /\ ens = EnsNew
    /\ ens_ret = EnsIdle

EnsFrame == <<now, pcVars, mcVars, regVars, extButEns>>

\* AnomalyEnsemble.fit(data, time_series_col) with len(data) = n: a
\* sub-detector given too few samples returns without changing anything
EnsFit(n, identical, with_time_series) ==
    /\ ens' = [iso_trained |-> IF n < IsoMinSamples THEN ens.iso_trained ELSE TRUE,
               lof_trained |-> IF n < NNeighbors + 1 THEN ens.lof_trained ELSE TRUE,
               stat_trained |-> TRUE,
               ts_fitted |-> IF with_time_series /\ n >= WindowSize + 1
                             THEN TRUE ELSE ens.ts_fitted,
               fit_len |-> n, identical |-> identical]
    /\ ens_ret' = EnsIdle
    /\ UNCHANGED EnsFrame

\* AnomalyEnsemble.detect(data, weights); detect() changes nothing in the
\* ensemble, so the first detect() after a fit() stands for all of them
EnsDetectRows(weights, iso_raw, lof_raw, flagged, training_rows) ==
    LET r == Detect(ens, weights, iso_raw, lof_raw, flagged) IN
    /\ ens_ret = EnsIdle
    /\ ens_ret' = [weights |-> weights, e |-> ens, iso |-> r.iso, lof |-> r.lof,
                   stat |-> r.stat, divisor |-> r.divisor, scores |-> r.scores,
                   iso_raw |-> iso_raw, lof_raw |-> lof_raw,
                   training_rows |-> training_rows]
    /\ UNCHANGED <<ens, EnsFrame>>

\* detect() on any batch: what sklearn gives each row is free
EnsDetect(weights, iso_raw, lof_raw, flagged) ==
    EnsDetectRows(weights, iso_raw, lof_raw, flagged, FALSE)

\* detect() on the rows of the last fit() when these were one row repeated:
\* score_samples and the outlier factor give equal rows equal raw scores,
\* and |row - mean| / (std + 1e-8) is 0 for a row that is the mean
EnsDetectIdentical(weights, iso_raw, lof_raw) ==
    /\ ens.identical
    /\ EnsDetectRows(weights, [i \in 1..ens.fit_len |-> iso_raw],
                     [i \in 1..ens.fit_len |-> lof_raw],
                     [i \in 1..ens.fit_len |-> FALSE], TRUE)

(***************************************************************************)
(* ml/predict.py: MLPredictor.predict_multi_horizon.  Weights are counted  *)
(* in thousandths of a kilogram, the precision of round(x, 3).  What the   *)
(* model predicts for each day is an input.                                *)
(***************************************************************************)
MinHistory == 3
RecentWindow == 7
DefaultGrowth == 25

\* len(room_data) for the rooms of the model
ObsCounts == 0..(MinHistory + 1) \cup {RecentWindow}

\* self.model.predict(X_scaled)[0]
ModelOutputs == {-1500, 0, 1234, 2500}

\* room_data['avg_weight_kg'].iloc[-1]
CurrentWeights == {0, 1000, 2500}

\* the growth rates the last seven weights give, after max(0, growth_rate)
GrowthRates == {0, 40}

\* round(n / d, 0) for d > 0: to the nearest integer, a tie to the even one
RoundDiv(n, d) ==
    LET q == n \div d
        r == n % d IN
    IF 2 * r < d THEN q
    ELSE IF 2 * r > d THEN q + 1
    ELSE IF q % 2 = 0 THEN q ELSE q + 1

\* a history check that also turns away a room with exactly MinHistory rows
HistoryErrorOffByOne(n_obs) ==
    IF n_obs = 0 THEN "room_not_found"
    ELSE IF n_obs <= MinHistory THEN "insufficient_history"
    ELSE "none"

\* load_room_data: a room with no rows is "not found in data";
\* create_prediction_features: fewer than three rows in the window is
\* "insufficient historical data"
HistoryError(n_obs) ==
    IF n_obs = 0 THEN "room_not_found"
    ELSE IF n_obs < MinHistory THEN "insufficient_history"
    ELSE "none"

\* ten times final_pred: 0.7 * pred + 0.3 * (current_weight + growth_rate * day)
FinalPred10(pred, current_weight, growth_rate, day) ==
    7 * pred + 3 * (current_weight + growth_rate * day)

\* one day of a horizon: predicted_weights, lower_bound and upper_bound
DailyForecast(pred, current_weight, growth_rate, day) ==
    LET final10 == FinalPred10(pred, current_weight, growth_rate, day) IN
    [predicted |-> RoundDiv(final10, 10),
     lower |-> RoundDiv(9 * final10, 100),
     upper |-> RoundDiv(11 * final10, 100)]

FcIdle == [n_obs |-> 0, error |-> "idle", horizon |-> 0, days |-> <<>>]

FcInit == fc_ret = FcIdle

\* predict_multi_horizon(room_id, [horizon]) for a room with n_obs rows:
\* the error dict, or the daily forecasts of the horizon
PredictMultiHorizon(n_obs, horizon, preds, current_weight, growth_rate) ==
    LET error == HistoryError(n_obs) IN
    /\ n_obs < RecentWindow => growth_rate = DefaultGrowth
    /\ fc_ret' = [n_obs |-> n_obs, error |-> error,
                  horizon |-> IF error = "none" THEN horizon ELSE 0,
                  days |-> IF error = "none"
                           THEN [day \in 1..horizon |->
                                    DailyForecast(preds[day], current_weight,
                                                  growth_rate, day)]
                           ELSE <<>>]
    /\ UNCHANGED <<now, pcVars, mcVars, regVars, extButFc>>

(***************************************************************************)
(* with_prediction_cache(cache)(func): the wrapper is a coroutine, so other *)
(* calls run while one call awaits func.                                   *)
(***************************************************************************)

\* what func can return: a response, or None
FuncResults == Values \cup {None}

\* a wrapper that is not running; the other fields describe its last call
WrIdle ==
    [pc |-> "idle", key |-> NoKey, hit |-> FALSE, cached |-> None,
     invoked |-> 0, computed |-> None, result |-> None, raised |-> "none",
     stored |-> FALSE]

WrInit == wr = [r \in Requests |-> WrIdle]

\* the frame of the wrapper's steps
WrFrame == <<now, pc_max_size, pc_ttl, pc_set_at, pc_ret, pc_thr, pc_stale,
             mcVars, regVars, extButWr>>

\* there is a live entry under key: it is stored and get() does not expire it
CacheHit(key) ==
    /\ MapHas(pc_cache, key)
    /\ ~Expired(now, DictGet(pc_access_times, key, 0), pc_ttl)

\* the wrapper's test of what cache.get returned
IsCached(cached_result) == cached_result # None

\* wrapper, up to the await: cache_key, cache.get, return on a cached result
WrapCall(r, cache_key) ==
    LET g == PcGetResult(pc_cache, pc_access_times, pc_access_counts,
                         pc_ttl, now, cache_key)
        call == [WrIdle EXCEPT !.key = cache_key, !.hit = CacheHit(cache_key),
                    !.cached = IF CacheHit(cache_key) THEN pc_cache[cache_key]
                               ELSE None] IN
    /\ wr[r].pc = "idle"
    /\ CacheHit(cache_key) => DictGet(pc_access_counts, cache_key, 0) < MaxCount
    /\ pc_cache' = g.cache
    /\ pc_access_times' = g.access_times
    /\ pc_access_counts' = g.access_counts
    /\ wr' = [wr EXCEPT ![r] =
                 IF IsCached(g.result)
                 THEN [call EXCEPT !.result = g.result]
                 ELSE [call EXCEPT !.pc = "awaiting"]]
    /\ UNCHANGED WrFrame

\* wrapper, after the await: func returned result; cache.set and return
WrapReturn(r, result) ==
    LET s == PcSetResult(pc_cache, pc_access_times, pc_access_counts,
                         pc_max_size, now, wr[r].key, result) IN
    /\ wr[r].pc = "awaiting"
    /\ pc_cache' = s.cache
    /\ pc_access_times' = s.access_times
    /\ pc_access_counts' = s.access_counts
    /\ wr' = [wr EXCEPT ![r].pc = "idle", ![r].invoked = 1,
                        ![r].computed = result,
                        ![r].raised = s.raised,
                        ![r].stored = s.raised = "none",
                        ![r].result = IF s.raised = "none" THEN result ELSE None]
    /\ UNCHANGED WrFrame

\* wrapper, after the await: func raised, and the wrapper lets it through
WrapRaise(r) ==
    /\ wr[r].pc = "awaiting"
    /\ wr' = [wr EXCEPT ![r].pc = "idle", ![r].invoked = 1,
                        ![r].raised = "FuncError"]
    /\ UNCHANGED <<pc_cache, pc_access_times, pc_access_counts, WrFrame>>

WrTick ==
    /\ Tick
    /\ UNCHANGED <<pcVars, mcVars, regVars, extVars>>

(***************************************************************************)
(* ModelManager.compare_models over the metrics.json files the trainer     *)
(* saves.  test_mae and test_r2 are in tenths, performance_score in points.*)
(***************************************************************************)

VersionNames == {"A", "B"}
MaeValues == {3, 5}
R2Values == {-2, 7, 9}
NoMetrics == [test_mae |-> -1, test_r2 |-> 0, performance_score |-> -1]

\* performance_score = max(0, min(100, test_r2 * 100))
PerformanceScore(test_r2) ==
    IF test_r2 * 10 < 0 THEN 0 ELSE IF test_r2 * 10 > 100 THEN 100 ELSE test_r2 * 10

\* the metrics ModelTrainer.train computes
TrainedMetrics(test_mae, test_r2) ==
    [test_mae |-> test_mae, test_r2 |-> test_r2,
     performance_score |-> PerformanceScore(test_r2)]

CmpIdle == [op |-> "idle", version1 |-> "A", version2 |-> "A", error |-> FALSE,
            m1 |-> NoMetrics, m2 |-> NoMetrics, mae_winner |-> "A",
            r2_winner |-> "A", score_winner |-> "A", recommendation |-> "none"]

CmpInit ==
    /\ cmp_metrics = [v \in VersionNames |-> NoMetrics]
    /\ cmp_ret = CmpIdle

CmpFrame == UNCHANGED <<now, pcVars, mcVars, regVars, extButCmp>>

\* ModelTrainer.save_model writes the version's metrics.json
SaveMetrics(version, test_mae, test_r2) ==
    /\ cmp_metrics' = [cmp_metrics EXCEPT ![version] = TrainedMetrics(test_mae, test_r2)]
    /\ cmp_ret' = CmpIdle
    /\ CmpFrame

\* the 'winner' of test_mae: version1 when strictly lower, else version2
MaeWinner(version1, version2, m1, m2) ==
    IF m1.test_mae < m2.test_mae THEN version1 ELSE version2

\* the 'winner' of test_r2: version1 when strictly higher, else version2
R2Winner(version1, version2, m1, m2) ==
    IF m1.test_r2 > m2.test_r2 THEN version1 ELSE version2

\* the 'winner' of performance_score: version1 when strictly higher
ScoreWinner(version1, version2, m1, m2) ==
    IF m1.performance_score > m2.performance_score THEN version1 ELSE version2

\* sum(1 for metric in ... if metric['winner'] == version)
Wins(version, winners) == Cardinality({i \in 1..Len(winners) : winners[i] = version})

\* the version the recommendation names, or "similar"
Recommendation(version1, version2, winners) ==
    IF Wins(version1, winners) > Wins(version2, winners) THEN version1
    ELSE IF Wins(version2, winners) > Wins(version1, winners) THEN version2
    ELSE "similar"

\* ModelManager.compare_models(version1, version2)
CompareModels(version1, version2) ==
    LET m1 == cmp_metrics[version1]
        m2 == cmp_metrics[version2]
        winners == <<MaeWinner(version1, version2, m1, m2),
                     R2Winner(version1, version2, m1, m2),
                     ScoreWinner(version1, version2, m1, m2)>>
    IN  /\ cmp_ret = CmpIdle
        /\ cmp_ret' =
               IF m1 = NoMetrics \/ m2 = NoMetrics
               THEN [CmpIdle EXCEPT !.op = "compare", !.version1 = version1,
                                    !.version2 = version2, !.error = TRUE]
               ELSE [op |-> "compare", version1 |-> version1, version2 |-> version2,
                     error |-> FALSE, m1 |-> m1, m2 |-> m2,
                     mae_winner |-> winners[1], r2_winner |-> winners[2],
                     score_winner |-> winners[3],
                     recommendation |-> Recommendation(version1, version2, winners)]
        /\ UNCHANGED cmp_metrics
        /\ CmpFrame

(***************************************************************************)
(* PredictionCache.get_cache_key and the key with_prediction_cache makes.  *)
(* A string is the sequence of its characters; a value is its type and the *)
(* text str() gives for it; a kwargs dict is the sequence of its           *)
(* (name, value) items in the order the caller passed them.                *)
(***************************************************************************)

ParamNames == {"a", "b"}
NameOrder == [n \in ParamNames |-> IF n = "a" THEN 1 ELSE 2]
Endpoints == {"f", "g"}
ParamValues == {[type |-> "int", text |-> <<"1">>],
                [type |-> "str", text |-> <<"1">>],
                [type |-> "str", text |-> <<"1", "_", "b", "=", "1">>]}

\* the keyword arguments a call can pass: distinct names, any order
KwargsOf(names) ==
    {kw \in [1..Cardinality(names) -> names \X ParamValues] :
        \A i, j \in 1..Cardinality(names) : i # j => kw[i][1] # kw[j][1]}

AllKwargs == UNION {KwargsOf(names) : names \in SUBSET ParamNames}
AllArgs == {<<>>, <<[type |-> "int", text |-> <<"1">>]>>}
WrappedFunctions == {"f"}

\* the items without their order
Items(kwargs) == {kwargs[i] : i \in 1..Len(kwargs)}

\* kwargs.items() as passed, not sorted
UnsortedItems(kwargs) == kwargs

\* sorted(kwargs.items()): by name, the names being distinct
SortedItems(kwargs) ==
    CHOOSE s \in [1..Len(kwargs) -> Items(kwargs)] :
        /\ Items(s) = Items(kwargs)
        /\ \A i, j \in 1..Len(kwargs) :
              i < j => NameOrder[s[i][1]] < NameOrder[s[j][1]]

\* f"{k}={v}"
FormatItem(item) == <<item[1], "=">> \o item[2].text

\* '_'.join(...)
RECURSIVE Join(_)
Join(parts) ==
    IF Len(parts) = 0 THEN <<>>
    ELSE IF Len(parts) = 1 THEN parts[1]
    ELSE parts[1] \o <<"_">> \o Join(Tail(parts))

\* f"{endpoint}_{params_str}"
GetCacheKey(endpoint, kwargs) ==
    LET items == SortedItems(kwargs)
        params_str == Join([i \in 1..Len(items) |-> FormatItem(items[i])])
    IN  <<endpoint, "_">> \o params_str

NoCall == [op |-> "idle", endpoint |-> "f", args |-> <<>>, kwargs |-> <<>>,
           key |-> <<>>]

KeyInit == key_calls = <<NoCall, NoCall>>

KeyFrame == UNCHANGED <<now, pcVars, mcVars, regVars, extButKey>>

\* cache.get_cache_key(endpoint, **kwargs) called directly
GetCacheKeyCall(endpoint, kwargs) ==
    /\ key_calls' = <<key_calls[2],
                      [op |-> "get_cache_key", endpoint |-> endpoint,
                       args |-> <<>>, kwargs |-> kwargs,
                       key |-> GetCacheKey(endpoint, kwargs)]>>
    /\ KeyFrame

\* wrapper(*args, **kwargs) of a function named func_name: the key it
\* looks up and stores under
WrapperKey(func_name, args, kwargs) ==
    /\ key_calls' = <<key_calls[2],
                      [op |-> "wrapper", endpoint |-> func_name,
                       args |-> args, kwargs |-> kwargs,
                       key |-> GetCacheKey(func_name, kwargs)]>>
    /\ KeyFrame

(***************************************************************************)
(* get_model_cache() and get_prediction_cache(): a module global that is   *)
(* None until the first call.  A thread can be switched out between the    *)
(* test of the global, the assignment to it and the return statement.      *)
(***************************************************************************)

Getters == {"get_model_cache", "get_prediction_cache"}

\* a thread outside the getters; handle is what each getter returned to it
\* last, 0 when it has not called it
SgIdleThread == [pc |-> "idle", getter |-> "get_model_cache",
                 handle |-> [g \in Getters |-> 0]]

SgInit ==
    /\ sg_global = [g \in Getters |-> 0]
    /\ sg_made = [g \in Getters |-> 0]
    /\ sg_thr = [t \in Threads |-> SgIdleThread]
    /\ sg_entries = [g \in Getters |-> {}]

SgFrame == UNCHANGED <<now, pcVars, mcVars, regVars, extButSg>>

\* a thread calls a getter
SgCall(t, g) ==
    /\ sg_thr[t].pc = "idle"
    /\ sg_thr' = [sg_thr EXCEPT ![t].pc = "check", ![t].getter = g]
    /\ UNCHANGED <<sg_global, sg_made, sg_entries>>
    /\ SgFrame

\* if _model_cache is None
SgCheck(t) ==
    /\ sg_thr[t].pc = "check"
    /\ sg_thr' = [sg_thr EXCEPT ![t].pc =
                      IF sg_global[sg_thr[t].getter] = 0 THEN "create" ELSE "return"]
    /\ UNCHANGED <<sg_global, sg_made, sg_entries>>
    /\ SgFrame

\* _model_cache = ModelCache(ttl_seconds=3600): a new instance replaces
\* whatever the global holds
SgCreate(t) ==
    LET g == sg_thr[t].getter IN
    /\ sg_thr[t].pc = "create"
    /\ sg_made' = [sg_made EXCEPT ![g] = sg_made[g] + 1]
    /\ sg_global' = [sg_global EXCEPT ![g] = sg_made[g] + 1]
    /\ sg_thr' = [sg_thr EXCEPT ![t].pc = "return"]
    /\ UNCHANGED sg_entries
    /\ SgFrame

\* return _model_cache
SgReturn(t) ==
    LET g == sg_thr[t].getter IN
    /\ sg_thr[t].pc = "return"
    /\ sg_thr' = [sg_thr EXCEPT ![t].pc = "idle", ![t].handle[g] = sg_global[g]]
    /\ UNCHANGED <<sg_global, sg_made, sg_entries>>
    /\ SgFrame

\* a thread stores an entry through the handle it holds
SgStore(t, g) ==
    /\ sg_thr[t].pc = "idle"
    /\ sg_thr[t].handle[g] # 0
    /\ sg_entries' = [sg_entries EXCEPT ![g] = @ \cup {sg_thr[t].handle[g]}]
    /\ UNCHANGED <<sg_global, sg_made, sg_thr>>
    /\ SgFrame

(***************************************************************************)
(* predict_room with save_predictions on: the rows it adds to the          *)
(* predictions table.  The session is made with autoflush=False, so a      *)
(* SELECT sees committed rows only; the table has the unique constraint    *)
(* uq_prediction on (room_id, target_date, metric_name, model_id).  The    *)
(* metric is always 'avg_weight_kg'; a date is a day number.               *)
(***************************************************************************)

RoomIds == {1, 2}
ModelIds == {1}
HorizonLists == {<<1>>, <<MaxHorizon>>, <<1, MaxHorizon>>}

\* the columns of uq_prediction
UqPrediction(row) == <<row.room_id, row.target_date, row.model_id>>

\* check_result.scalar_one_or_none() is not None, over the committed rows
Existing(table, room_id, target_date, model_id) ==
    \E row \in table : UqPrediction(row) = <<room_id, target_date, model_id>>

\* the rows the inner loop adds to the session for one horizon: one for each
\* of its days that has no committed row
RECURSIVE HorizonRows(_, _, _, _, _, _)
HorizonRows(table, room_id, model_id, today, horizon_days, i) ==
    IF i >= horizon_days THEN <<>>
    ELSE LET target_date == today + i + 1
             rest == HorizonRows(table, room_id, model_id, today, horizon_days, i + 1)
         IN  IF Existing(table, room_id, target_date, model_id)
             THEN rest
             ELSE <<[room_id |-> room_id, target_date |-> target_date,
                     model_id |-> model_id,
                     prediction_horizon |-> horizon_days]>> \o rest

\* the rows added over all horizons of the request
RECURSIVE AddedRows(_, _, _, _, _)
AddedRows(table, room_id, model_id, today, horizons) ==
    IF Len(horizons) = 0 THEN <<>>
    ELSE HorizonRows(table, room_id, model_id, today, Head(horizons), 0)
            \o AddedRows(table, room_id, model_id, today, Tail(horizons))

\* the INSERTs of a commit break uq_prediction
ViolatesUnique(table, added) ==
    \/ \E i, j \in 1..Len(added) :
          i # j /\ UqPrediction(added[i]) = UqPrediction(added[j])
    \/ \E i \in 1..Len(added), row \in table :
          UqPrediction(added[i]) = UqPrediction(row)

SvIdle == [op |-> "idle", code |-> 0, room_id |-> 0, horizons |-> <<>>,
           saved_count |-> 0]

SvInit ==
    /\ predictions = {}
    /\ sv_ret = SvIdle

\* POST /ml/predict/room/{room_id}?save_predictions=true with model_id the
\* active model, for a room whose forecast succeeds: the commit either
\* inserts every added row or raises IntegrityError, which the handler
\* answers with 500
PredictRoomSave(room_id, model_id, horizons) ==
    LET added == AddedRows(predictions, room_id, model_id, now, horizons)
        failed == Len(added) > 0 /\ ViolatesUnique(predictions, added) IN
    /\ predictions' = IF failed THEN predictions
                      ELSE predictions \cup {added[i] : i \in 1..Len(added)}
    /\ sv_ret' = [op |-> "predict_room", code |-> IF failed THEN 500 ELSE 200,
                  room_id |-> room_id, horizons |-> horizons,
                  saved_count |-> Len(added)]
    /\ UNCHANGED <<now, pcVars, mcVars, regVars, extButSv>>

\* a day passes
SvTick ==
    /\ Tick
    /\ sv_ret' = SvIdle
    /\ UNCHANGED <<predictions, pcVars, mcVars, regVars, extButSv>>

\* every component added after the registry, at rest
ExtInit == WrInit /\ PrInit /\ ArtInit /\ EnsInit /\ FcInit /\ DelInit /\ CmpInit /\ KeyInit /\ SgInit
           /\ SvInit

\* a PredictionCache of any capacity and ttl; the other components idle
InitPC ==
    /\ now = Epoch
    /\ \E max_size \in 1..MaxCap, ttl_seconds \in 1..MaxTtl :
          PcInit(max_size, ttl_seconds)
    /\ McInit(MaxTtl)
    /\ RegInit
    /\ ExtInit

\* the smallest PredictionCache, shared by the threads
InitPCConc ==
    /\ now = Epoch
    /\ PcInit(1, 1)
    /\ McInit(MaxTtl)
    /\ RegInit
    /\ ExtInit

\* a ModelCache of any ttl; the other components idle
InitMC ==
    /\ now = Epoch
    /\ PcInit(MaxCap, MaxTtl)
    /\ \E ttl_seconds \in 1..MaxTtl : McInit(ttl_seconds)
    /\ RegInit
    /\ ExtInit

\* an empty registry; the caches idle
InitReg ==
    /\ now = Epoch
    /\ PcInit(MaxCap, MaxTtl)
    /\ McInit(MaxTtl)
    /\ RegInit
    /\ ExtInit

PcNext ==
    \/ \E key \in Keys, value \in Values : PcSet(key, value)
    \/ \E key \in Keys : PcGet(key)
    \/ PcClearExpired
    \/ PcTick

SpecPC == InitPC /\ [][PcNext]_vars

McNext ==
    \/ \E model_path \in Paths, load_ok \in BOOLEAN : McGetModel(model_path, load_ok)
    \/ McClearExpired
    \/ McTick

PcConcNext ==
    \/ \E t \in Threads, key \in SharedKeys : PtCall(t, "get", key)
    \/ \E t \in Threads, key \in SharedKeys : PtCall(t, "set", key)
    \/ \E t \in Threads : PtCall(t, "clear_expired", NoKey)
    \/ \E t \in Threads : PtGetCheck(t)
    \/ \E t \in Threads : PtGetTime(t)
    \/ \E t \in Threads : PtGetDel(t)
    \/ \E t \in Threads : PtGetTouch(t)
    \/ \E t \in Threads : PtGetCount(t)
    \/ \E t \in Threads : PtGetAdd(t)
    \/ \E t \in Threads : PtGetReturn(t)
    \/ \E t \in Threads : PtSetCheck(t)
    \/ \E t \in Threads : PtSetMin(t)
    \/ \E t \in Threads : PtSetDelCache(t)
    \/ \E t \in Threads : PtSetDelTimes(t)
    \/ \E t \in Threads : PtSetDelCounts(t)
    \/ \E t \in Threads : PtSetStore(t)
    \/ \E t \in Threads : PtSetStamp(t)
    \/ \E t \in Threads : PtSetCount(t)
    \/ \E t \in Threads : PtClearScan(t)
    \/ \E t \in Threads : PtClearDelCache(t)
    \/ \E t \in Threads : PtClearDelTimes(t)
    \/ \E t \in Threads : PtClearDelCounts(t)
    \/ PtTick

SpecPCConc == InitPCConc /\ [][PcConcNext]_vars

WrNext ==
    \/ \E r \in Requests, cache_key \in SharedKeys : WrapCall(r, cache_key)
    \/ \E r \in Requests, result \in FuncResults : WrapReturn(r, result)
    \/ \E r \in Requests : WrapRaise(r)
    \/ WrTick

SpecWrap == InitPCConc /\ [][WrNext]_vars

ArtNext ==
    \/ SaveVersionDir
    \/ \E f \in ArtifactFiles : RmtreeUnlink(f)
    \/ RmtreeRmdir
    \/ CopytreeMkdir
    \/ \E f \in ArtifactFiles : CopytreeOpen(f)
    \/ CopytreeClose
    \/ PredictorInit
    \/ PredictorLoad
    \/ PredictorDrop

SpecArt == InitReg /\ [][ArtNext]_vars

EnsNext ==
    \/ \E n \in SampleCounts, identical \in BOOLEAN, with_time_series \in BOOLEAN :
          EnsFit(n, identical, with_time_series)
    \/ \E weights \in WeightMaps, iso_raw \in 0..MaxRaw, lof_raw \in 0..MaxRaw :
          EnsDetectIdentical(weights, iso_raw, lof_raw)
    \/ \E rows \in 1..MaxRows :
          \E weights \in WeightMaps,
             iso_raw \in [1..rows -> 0..MaxRaw],
             lof_raw \in [1..rows -> 0..MaxRaw],
             flagged \in [1..rows -> BOOLEAN] :
                EnsDetect(weights, iso_raw, lof_raw, flagged)

SpecEns == InitReg /\ [][EnsNext]_vars

FcNext ==
    \E n_obs \in ObsCounts, horizon \in 1..MaxHorizon :
        \E preds \in [1..horizon -> ModelOutputs],
           current_weight \in CurrentWeights,
           growth_rate \in GrowthRates \cup {DefaultGrowth} :
              PredictMultiHorizon(n_obs, horizon, preds, current_weight, growth_rate)

SpecForecast == InitReg /\ [][FcNext]_vars

SpecMC == InitMC /\ [][McNext]_vars

McConcNext ==
    \/ \E t \in Threads, model_path \in Paths : ThrCall(t, model_path)
    \/ \E t \in Threads : ThrCheck(t)
    \/ \E t \in Threads : ThrTime(t)
    \/ \E t \in Threads : ThrTouch(t)
    \/ \E t \in Threads : ThrReturn(t)
    \/ \E t \in Threads : ThrDelCache(t)
    \/ \E t \in Threads : ThrDelTime(t)
    \/ \E t \in Threads, load_ok \in BOOLEAN : ThrLoad(t, load_ok)
    \/ \E t \in Threads : ThrStore(t)
    \/ \E t \in Threads : ThrStamp(t)
    \/ ThrTick

SpecMCConc == InitMC /\ [][McConcNext]_vars

RegNext ==
    \/ \E ok \in BOOLEAN : TrainModel(ok)
    \/ \E model_id \in 1..(Len(ml_models) + 1) : ActivateModel(model_id)
    \/ \E version \in DOMAIN model_dirs : DeleteModel(version)
    \/ DeleteLatest
    \/ \E op \in {"predict_room", "predict_farm"}, joblib_loads \in BOOLEAN,
          history \in HistoryStates :
          Predict(op, joblib_loads, history)
    \/ RegTick

SpecReg == InitReg /\ [][RegNext]_vars

RegConcNext ==
    \/ \E r \in Requests, ok \in BOOLEAN : ReqTrainStart(r, ok)
    \/ \E r \in Requests : ReqTrainSelect(r)
    \/ \E r \in Requests : ReqTrainCommit(r)
    \/ \E r \in Requests, model_id \in 1..(Len(ml_models) + 1) :
          ReqActivateStart(r, model_id)
    \/ \E r \in Requests : ReqActivateSelect(r)
    \/ \E r \in Requests : ReqActivateCommit(r)
    \/ ReadActive
    \/ RegTick

SpecRegConc == InitReg /\ [][RegConcNext]_vars

(***************************************************************************)
(* Properties of PredictionCache, checked under SpecPC.                    *)
(***************************************************************************)

\* C1: a value stored by set(key, v) at time T0 is returned by get(key) only
\* while now - T0 < ttl, however many hits happened in between.
C1_StalenessBound ==
    (pc_ret.op = "get" /\ pc_ret.result # None)
        => now - pc_set_at[pc_ret.key] < pc_ttl

\* C2: the number of stored entries never exceeds max_size.
C2_SizeBound == MapLen(pc_cache) <= pc_max_size

\* a set() that found the cache full, evicted and stored its key
C2_Witness ==
    /\ pc_ret.op = "set"
    /\ pc_ret.full
    /\ pc_ret.raised = "none"
    /\ pc_ret.victim # pc_ret.key
    /\ MapLen(pc_cache) = pc_max_size

\* C3: whenever set() runs its capacity eviction, the entry it removes is an
\* entry stored in the cache whose access count is minimal among the stored
\* entries.
C3_EvictsLeastAccessed ==
    (pc_ret.op = "set" /\ pc_ret.full)
        => /\ pc_ret.victim_stored
           /\ pc_ret.victim_least
           /\ ~MapHas(pc_cache, pc_ret.victim) \/ pc_ret.victim = pc_ret.key

(***************************************************************************)
(* Properties of ModelCache, checked under SpecMC.                         *)
(***************************************************************************)

\* C9: an artifact loaded from storage at time T0 is never returned by
\* get_model at a time >= T0 + ttl without a fresh storage load.
C9_StalenessBound ==
    (mc_ret.op = "get_model" /\ mc_ret.raised = "none")
        => now - mc_ret.result.at < mc_ttl

C4_ExactlyOneActive == Cardinality(ActiveIds(ml_models)) = 1

\* C4 as amended: at most one version is active in every such state, and
\* exactly one from the first registered version on.
C4_ExactlyOneOnceRegistered ==
    /\ Cardinality(ActiveIds(ml_models)) <= 1
    /\ Len(ml_models) > 0 => Cardinality(ActiveIds(ml_models)) = 1

\* an activation that moved the flag from one version to another
C4_Witness ==
    /\ reg_ret.op = "activate"
    /\ reg_ret.code = 200
    /\ Len(ml_models) >= 2
    /\ ActiveIds(reg_ret.before) # ActiveIds(ml_models)
    /\ ActiveIds(ml_models) = {reg_ret.id}

\* C5: after activate_model(id), if id exists and its artifacts validate,
\* exactly one version is active and it is id; otherwise the call fails and
\* the is_active flag and status of every version are unchanged.
C5_ActivateValidates ==
    reg_ret.op = "activate" =>
        IF reg_ret.valid
        THEN reg_ret.code = 200 /\ ActiveIds(ml_models) = {reg_ret.id}
        ELSE reg_ret.code # 200 /\ ml_models = reg_ret.before

(***************************************************************************)
(* The registry under concurrent requests, checked under SpecRegConc.      *)
(***************************************************************************)

\* C6: with activate_model and train_model requests running concurrently,
\* no committed registry state and no reader observation holds zero or two
\* active versions (from the first registered version on).
C6_AtomicActivation ==
    /\ Len(ml_models) > 0 => Cardinality(ActiveIds(ml_models)) = 1
    /\ observed.rows > 0 => observed.active = 1

(***************************************************************************)
(* ModelCache under concurrent callers, checked under SpecMCConc.          *)
(***************************************************************************)

\* C7: in every interleaving of get_model calls, every call that returns
\* returns a loaded artifact, no call fails because of the interleaving (a
\* KeyError: a failed storage read is no such failure), and no caller sees
\* a path that is in the artifact map and not in the timestamp map, or the
\* reverse.
C7_GetModelThreadSafe ==
    \A t \in Threads :
        /\ mc_thr[t].raised # "KeyError"
        /\ ~mc_thr[t].torn
        /\ (mc_thr[t].pc = "idle" /\ mc_thr[t].path # NoKey
                /\ mc_thr[t].raised = "none") => mc_thr[t].result.id >= 1

(***************************************************************************)
(* PredictionCache under concurrent callers, checked under SpecPCConc.     *)
(***************************************************************************)

\* C8: in every interleaving of threads calling get, set and clear_expired,
\* no caller finds a key that is in some but not all of the cache's maps,
\* and no call fails because another thread is in the middle of a mutation.
\* (Runs in which a get() has taken its expiry branch are left out: that
\* branch leaves stale metadata behind even with a single thread.)
C8_MutationsAtomic ==
    ~pc_stale =>
        \A t \in Threads : pc_thr[t].raised = "none" /\ ~pc_thr[t].torn

(***************************************************************************)
(* with_prediction_cache, checked under SpecWrap.                          *)
(***************************************************************************)

\* C11: a wrapped call that finds a live entry under its key does not invoke
\* the computation and returns the cached value; a call that finds none
\* invokes the computation once and, when the computation returns, stores
\* its result under the key and returns it.
C11_WrapperContract ==
    \A r \in Requests :
        (wr[r].pc = "idle" /\ wr[r].key # NoKey) =>
            /\ wr[r].hit =>
                   /\ wr[r].invoked = 0
                   /\ wr[r].result = wr[r].cached
            /\ ~wr[r].hit =>
                   /\ wr[r].invoked = 1
                   /\ wr[r].raised # "FuncError" =>
                          /\ wr[r].stored
                          /\ wr[r].result = wr[r].computed

(***************************************************************************)
(* The prediction endpoints, checked under SpecReg.                        *)
(***************************************************************************)

\* C12: a prediction that succeeds is computed with the artifacts of the
\* active version, and the model_version of the response is the version
\* whose artifacts were loaded.
C12_ActiveModelServes ==
    pr_ret.code = 200 => pr_ret.served = pr_ret.model_version

(***************************************************************************)
(* The artifact set of 'latest', checked under SpecArt.                    *)
(***************************************************************************)

\* C13: a predictor built while save_model replaces 'latest' loads a
\* complete artifact set of one version: no load fails on a missing or
\* half-copied file, and the loaded files all come from the same version.
C13_ArtifactsLoadedAtomically ==
    /\ art_predictor.raised = "none"
    /\ art_predictor.pc = "done" =>
          \A f, g \in ArtifactFiles :
              art_predictor.loaded[f] = art_predictor.loaded[g]

(***************************************************************************)
(* AnomalyEnsemble, checked under SpecEns.                                 *)
(***************************************************************************)

\* the detectors that contribute to the last detect(): trained, and given a
\* positive weight
EnsContributes(d) ==
    /\ WeightsGet(ens_ret.weights, d) > 0
    /\ \/ d = "iso_forest" /\ ens_ret.e.iso_trained
       \/ d = "lof" /\ ens_ret.e.lof_trained
       \/ d = "statistical" /\ ens_ret.e.stat_trained
       \/ d = "timeseries" /\ ens_ret.e.ts_fitted

\* row i of the last detect() has the maximal score of detector d
EnsMaximal(d, i) ==
    \/ d = "iso_forest" /\ ens_ret.iso[i].num = ens_ret.iso[i].den
    \/ d = "lof" /\ ens_ret.lof[i].num = ens_ret.lof[i].den
    \/ d = "statistical" /\ ens_ret.stat[i] = 1

\* C14: the divisor of detect() is the sum of the weights of the detectors
\* that contribute, so that a row to which every contributing detector gives
\* its maximal score has ensemble score 1 (stated for non-negative weights
\* and for detects in which the time-series detector does not contribute).
C14_NormalizedByContributing ==
    (/\ ens_ret.scores # <<>>
     /\ \A d \in DOMAIN ens_ret.weights : ens_ret.weights[d] >= 0
     /\ ~EnsContributes("timeseries")
     /\ \E d \in Detectors : EnsContributes(d))
        => \A i \in DOMAIN ens_ret.scores :
              (\A d \in Detectors : EnsContributes(d) => EnsMaximal(d, i))
                  => ens_ret.scores[i].num = ens_ret.scores[i].den

\* C15: every score detect() returns is in [0,1], whatever the weights
\* mapping and whichever sub-detectors are trained.
C15_ScoresInUnitInterval ==
    \A i \in DOMAIN ens_ret.scores :
        /\ 0 <= ens_ret.scores[i].num
        /\ ens_ret.scores[i].num <= ens_ret.scores[i].den

\* C16: after a fit() with fewer samples than a sub-detector needs, that
\* sub-detector is untrained and gives score 0 to every row of a later
\* detect(), also when an earlier fit() on the same ensemble had succeeded.
C16_UnderMinimumUntrained ==
    /\ (ens.fit_len > 0 /\ ens.fit_len < IsoMinSamples) => ~ens.iso_trained
    /\ (ens.fit_len > 0 /\ ens.fit_len < NNeighbors + 1) => ~ens.lof_trained
    /\ (ens_ret.e.fit_len > 0 /\ ens_ret.e.fit_len < IsoMinSamples) =>
           \A i \in DOMAIN ens_ret.iso : ens_ret.iso[i].num = 0
    /\ (ens_ret.e.fit_len > 0 /\ ens_ret.e.fit_len < NNeighbors + 1) =>
           \A i \in DOMAIN ens_ret.lof : ens_ret.lof[i].num = 0

(***************************************************************************)
(* predict_multi_horizon, checked under SpecForecast.                      *)
(***************************************************************************)

\* C17: on every day of a returned horizon the predicted weight lies between
\* the lower and the upper bound.
C17_BoundsEnclosePrediction ==
    \A day \in DOMAIN fc_ret.days :
        /\ fc_ret.days[day].lower <= fc_ret.days[day].predicted
        /\ fc_ret.days[day].predicted <= fc_ret.days[day].upper

\* C20: a forecast for a room succeeds when the room has exactly three
\* observations (or more) and fails with the insufficient-history error
\* when it has fewer than three.
C20_HistoryBoundary ==
    fc_ret.error # "idle" =>
        /\ fc_ret.n_obs >= MinHistory => fc_ret.error = "none"
        /\ fc_ret.n_obs < MinHistory => fc_ret.error = "insufficient_history"

\* C20, amended: a forecast for a room succeeds when the room has exactly
\* three observations (or more), fails with the insufficient-history error
\* when it has one or two, and fails as "room not found in data" when it
\* has none.
C20_HistoryBoundaryOfKnownRoom ==
    fc_ret.error # "idle" =>
        /\ fc_ret.n_obs >= MinHistory =>
               fc_ret.error = "none" /\ Len(fc_ret.days) = fc_ret.horizon
        /\ (fc_ret.n_obs >= 1 /\ fc_ret.n_obs < MinHistory) =>
               fc_ret.error = "insufficient_history" /\ fc_ret.days = <<>>
        /\ fc_ret.n_obs = 0 =>
               fc_ret.error = "room_not_found" /\ fc_ret.days = <<>>

\* a forecast that succeeded on exactly three observations
C20_Witness ==
    /\ fc_ret.n_obs = MinHistory
    /\ fc_ret.error = "none"
    /\ fc_ret.days # <<>>

CmpNext ==
    \/ \E version \in VersionNames, test_mae \in MaeValues, test_r2 \in R2Values :
          SaveMetrics(version, test_mae, test_r2)
    \/ \E version1 \in VersionNames, version2 \in VersionNames :
          CompareModels(version1, version2)

SpecCompare == InitReg /\ [][CmpNext]_vars

KeyNext ==
    \/ \E endpoint \in Endpoints, kwargs \in AllKwargs :
          GetCacheKeyCall(endpoint, kwargs)
    \/ \E func_name \in WrappedFunctions, args \in AllArgs, kwargs \in AllKwargs :
          WrapperKey(func_name, args, kwargs)

SpecKey == InitReg /\ [][KeyNext]_vars

SgNext ==
    \/ \E t \in Threads, g \in Getters : SgCall(t, g)
    \/ \E t \in Threads : SgCheck(t)
    \/ \E t \in Threads : SgCreate(t)
    \/ \E t \in Threads : SgReturn(t)
    \/ \E t \in Threads, g \in Getters : SgStore(t, g)

SpecSingleton == InitReg /\ [][SgNext]_vars

SvNext ==
    \/ \E room_id \in RoomIds, model_id \in ModelIds, horizons \in HorizonLists :
          PredictRoomSave(room_id, model_id, horizons)
    \/ SvTick

SpecSave == InitReg /\ [][SvNext]_vars

(***************************************************************************)
(* delete_model, checked under SpecReg.                                    *)
(***************************************************************************)

\* C18: a delete of the active version or of the 'latest' alias is refused
\* and leaves the artifacts and the metadata in place; a delete of any other
\* existing version removes its artifacts and its metadata, so that the
\* version is no longer listed.
C18_DeleteGuardsActive ==
    del_ret.op = "delete" =>
        /\ (del_ret.was_active \/ del_ret.alias) =>
               /\ ~del_ret.success
               /\ del_ret.alias => del_ret.latest_left
               /\ ~del_ret.alias => del_ret.dir_left
               /\ del_ret.listed
        /\ ~(del_ret.was_active \/ del_ret.alias) =>
               /\ del_ret.success
               /\ ~del_ret.dir_left
               /\ ~del_ret.listed

(***************************************************************************)
(* compare_models, checked under SpecCompare.                              *)
(***************************************************************************)

\* on the metric a caller has in mind, the version strictly better than the
\* other one, or "none"
BetterOn(metric, r) ==
    IF metric = "test_mae"
    THEN IF r.m1.test_mae < r.m2.test_mae THEN r.version1
         ELSE IF r.m2.test_mae < r.m1.test_mae THEN r.version2 ELSE "none"
    ELSE IF r.m1.test_r2 > r.m2.test_r2 THEN r.version1
         ELSE IF r.m2.test_r2 > r.m1.test_r2 THEN r.version2 ELSE "none"

\* C19: a comparison of two versions recommends, whichever metric it is made
\* on, the version better on that metric: lower MAE, higher R2.  For
\* A (r2 0.9, mae 0.5) and B (r2 0.7, mae 0.3) the comparison on r2
\* recommends A and the comparison on mae recommends B.
C19_RecommendsBetterOnMetric ==
    (cmp_ret.op = "compare" /\ ~cmp_ret.error /\ cmp_ret.version1 # cmp_ret.version2) =>
        \A metric \in {"test_mae", "test_r2"} :
            BetterOn(metric, cmp_ret) # "none" =>
                cmp_ret.recommendation = BetterOn(metric, cmp_ret)

(***************************************************************************)
(* The error outcomes of the forecast path, checked under SpecReg.         *)
(***************************************************************************)

\* C21: 'no active model', 'insufficient history' and 'corrupt artifact'
\* each have an outcome of their own: the three outcomes differ from one
\* another, and no other failure ends in the outcome of one of the three.
C21_ErrorsDistinguishable ==
    pr_ret.op = "predict_room" =>
        /\ pr_ret.code = 503 <=> pr_ret.cause = "no_active_model"
        /\ pr_ret.code = 400 <=> pr_ret.cause = "insufficient_history"
        /\ pr_ret.code = 500 <=> pr_ret.cause = "corrupt_artifact"

(***************************************************************************)
(* PredictionCache.clear_expired, checked under SpecPC.                    *)
(***************************************************************************)

\* C22: a clear_expired() call returns without raising; afterwards the cache
\* holds exactly the entries it held before whose age is under ttl, with
\* their values, and the call returns the number of entries it removed.
C22_ClearExpiredExact ==
    [][pc_ret'.op = "clear_expired" =>
          /\ pc_ret'.raised = "none"
          /\ \A k \in Keys :
                /\ MapHas(pc_cache', k) <=>
                      /\ MapHas(pc_cache, k)
                      /\ ~Expired(now, DictGet(pc_access_times, k, 0), pc_ttl)
                /\ MapHas(pc_cache', k) => pc_cache'[k] = pc_cache[k]
          /\ pc_ret'.removed = MapLen(pc_cache) - MapLen(pc_cache')]_vars

(***************************************************************************)
(* The three maps of a PredictionCache used by one thread, under SpecPC.   *)
(***************************************************************************)

\* C26: between calls the value map, the access-time map and the
\* access-count map hold the same keys.
C26_MapsShareKeys ==
    \A k \in Keys :
        /\ MapHas(pc_cache, k) <=> DictHas(pc_access_times, k)
        /\ MapHas(pc_cache, k) <=> DictHas(pc_access_counts, k)

\* C27: set and clear_expired return without raising, and when set(key,
\* value) has returned, key is stored with value.
C27_SetAndClearNeverRaise ==
    /\ pc_ret.op \in {"set", "clear_expired"} => pc_ret.raised = "none"
    /\ pc_ret.op = "set" =>
          /\ MapHas(pc_cache, pc_ret.key)
          /\ pc_cache[pc_ret.key] = pc_ret.result

(***************************************************************************)
(* Cache keys, checked under SpecKey.                                      *)
(***************************************************************************)

\* C23: two get_cache_key calls with the same endpoint name and the same
\* set of parameter name/value pairs, in whatever order, give the same key.
C23_KeyIgnoresParameterOrder ==
    (/\ key_calls[1].op = "get_cache_key" /\ key_calls[2].op = "get_cache_key"
     /\ key_calls[1].endpoint = key_calls[2].endpoint
     /\ Items(key_calls[1].kwargs) = Items(key_calls[2].kwargs)) =>
        key_calls[1].key = key_calls[2].key

\* the same two parameters have been passed in both orders
C23_Witness ==
    /\ key_calls[1].op = "get_cache_key" /\ key_calls[2].op = "get_cache_key"
    /\ key_calls[1].endpoint = key_calls[2].endpoint
    /\ Len(key_calls[1].kwargs) = 2
    /\ Items(key_calls[1].kwargs) = Items(key_calls[2].kwargs)
    /\ key_calls[1].kwargs # key_calls[2].kwargs
    /\ key_calls[1].key = key_calls[2].key

\* C28: two invocations of one wrapped operation that differ in a
\* positional or a keyword argument are looked up under different keys.
C28_DifferentArgumentsDifferentKeys ==
    (/\ key_calls[1].op = "wrapper" /\ key_calls[2].op = "wrapper"
     /\ key_calls[1].endpoint = key_calls[2].endpoint
     /\ \/ key_calls[1].args # key_calls[2].args
        \/ Items(key_calls[1].kwargs) # Items(key_calls[2].kwargs)) =>
        key_calls[1].key # key_calls[2].key

(***************************************************************************)
(* Flat batches, checked under SpecEns.                                    *)
(***************************************************************************)

\* all raw scores of a batch are equal
Flat(raw_scores) == \A i, j \in DOMAIN raw_scores : raw_scores[i] = raw_scores[j]

\* C24: in a detect() whose raw isolation scores are all equal the isolation
\* score of every row is 0, and likewise for the density (LOF) scores; an
\* ensemble fit on identical rows and scored on those rows gives every row
\* the score 0.
C24_FlatBatchScoresZero ==
    /\ Flat(ens_ret.iso_raw) => \A i \in DOMAIN ens_ret.iso : ens_ret.iso[i].num = 0
    /\ Flat(ens_ret.lof_raw) => \A i \in DOMAIN ens_ret.lof : ens_ret.lof[i].num = 0
    /\ ens_ret.training_rows =>
          \A i \in DOMAIN ens_ret.scores : ens_ret.scores[i].num = 0

\* three identical rows have been fit and scored by an ensemble whose
\* isolation detector is trained and weighted
C24_Witness ==
    /\ ens_ret.training_rows
    /\ Len(ens_ret.scores) = 3
    /\ ens_ret.e.iso_trained
    /\ WeightsGet(ens_ret.weights, "iso_forest") > 0
    /\ ens_ret.e.stat_trained

(***************************************************************************)
(* The cache getters called from threads, checked under SpecSingleton.     *)
(***************************************************************************)

\* C25: every handle a getter has returned is the same instance, also when
\* the first calls overlap, and an entry stored through one handle is in the
\* instance behind every other handle.
C25_OneInstancePerProcess ==
    \A g \in Getters :
        /\ \A t, u \in Threads :
              (sg_thr[t].handle[g] # 0 /\ sg_thr[u].handle[g] # 0) =>
                  sg_thr[t].handle[g] = sg_thr[u].handle[g]
        /\ \A t \in Threads, i \in sg_entries[g] :
              sg_thr[t].handle[g] # 0 => sg_thr[t].handle[g] = i

(***************************************************************************)
(* The order of the arguments of compare_models, under SpecCompare.        *)
(***************************************************************************)

\* C29: compare_models(v2, v1) awards each per-metric win to the version
\* compare_models(v1, v2) awards it to, and recommends the same version,
\* whatever the metric values, equal ones included.
C29_CompareSymmetric ==
    (cmp_ret.op = "compare" /\ ~cmp_ret.error) =>
        LET v1 == cmp_ret.version1
            v2 == cmp_ret.version2
            m1 == cmp_ret.m1
            m2 == cmp_ret.m2
            swapped == <<MaeWinner(v2, v1, m2, m1), R2Winner(v2, v1, m2, m1),
                         ScoreWinner(v2, v1, m2, m1)>>
        IN  /\ swapped[1] = cmp_ret.mae_winner
            /\ swapped[2] = cmp_ret.r2_winner
            /\ swapped[3] = cmp_ret.score_winner
            /\ Recommendation(v2, v1, swapped) = cmp_ret.recommendation

(***************************************************************************)
(* Saved predictions, checked under SpecSave.                              *)
(***************************************************************************)

\* C30: no two rows of the predictions table share (room, target date,
\* metric, model), and every predict_room call that saves succeeds, a call
\* with overlapping horizons and a repeated call for the same room included.
C30_OneRowPerKeyAndCallSucceeds ==
    /\ \A r1, r2 \in predictions :
          UqPrediction(r1) = UqPrediction(r2) => r1 = r2
    /\ sv_ret.op = "predict_room" => sv_ret.code = 200

====

